---- MODULE Spec2Model ----
(***************************************************************************)
(* Product service: the product entity, the random product generator, and  *)
(* the two storage backends (in-memory slice under a sync.RWMutex, and a   *)
(* PostgreSQL table reached through sqlx).                                  *)
(*                                                                         *)
(* Conventions                                                             *)
(*   - a price is [whole, frac]: whole currency units and thousandths      *)
(*     (frac in 0..999), so that the DECIMAL(10,2) column's rounding and   *)
(*     range are computed, not assumed;                                    *)
(*   - a timestamp is a clock reading 0..MaxTime; time.Now() reads `now`;  *)
(*   - a uuid is a positive integer; uuid.New() draws the next unused one; *)
(*   - a Go int is [hi, lo], the value hi * 2^60 + lo with 0 <= lo < 2^60  *)
(*     and -8 <= hi <= 7, which is exact 64-bit two's complement for the   *)
(*     values used (page numbers and offsets).                             *)
(***************************************************************************)
EXTENDS Integers, Sequences, FiniteSets, TLC

\* ------------------------------------------------------------- bounds
MaxProducts == 2
MaxTime == 1
MaxBulk == 2
MaxIds == MaxProducts + 1
MaxAddr == 4

\* ------------------------------------------------------------- constants
\* DECIMAL(10,2): 8 digits before the point, 2 after.
NumericWholeLimit == 100000000
\* A Go int has 64 bits; 2^64 = 16 * 2^60, so the high part of a Go int
\* lives in -8..7.
WordBits == 64
HiModulus == 2^(WordBits - 60)

\* ------------------------------------------------------------- entity
Price(w, f) == [whole |-> w, frac |-> f]

\* Creation/update payloads (models.ProductRequest).
Requests ==
    { [name |-> "Widget", description |-> "", price |-> Price(9, 990)],
      [name |-> "Widget Pro", description |-> "upgraded", price |-> Price(19, 999)],
      [name |-> "Vault", description |-> "", price |-> Price(NumericWholeLimit, 0)] }

NoRequest == [name |-> "", description |-> "", price |-> Price(0, 0)]

Product(id, name, description, price, created, updated) ==
    [id |-> id, name |-> name, description |-> description, price |-> price,
     created_at |-> created, updated_at |-> updated]

\* ProductRequest.ToProduct, with the uuid and the clock reading it draws.
ToProduct(pr, id, t) ==
    Product(id, pr.name, pr.description, pr.price, t, t)

\* ------------------------------------------------------------- generator
adjectives == <<"Cool", "Pro">>
productTypes == <<"Gadget">>

ToLower(s) ==
    CASE s = "Cool Gadget" -> "cool gadget"
      [] s = "Pro Gadget" -> "pro gadget"
      [] OTHER -> s

\* rand.Float64()*990.0 lands anywhere in [0, 990): two representatives, one
\* with whole cents and one with a third decimal.
RandomOffsets == { Price(0, 0), Price(113, 456) }

\* 10.0 + offset
GeneratedPrice(off) == Price(10 + off.whole, off.frac)

\* GenerateRandomProduct, with its random draws and its uuid as arguments.
GenerateRandomProduct(a, t, off, id) ==
    LET name == adjectives[a] \o " " \o productTypes[t]
    IN  [id |-> id,
         name |-> name,
         description |-> "A " \o ToLower(name) \o " designed for modern needs.",
         price |-> GeneratedPrice(off)]

\* The draws of one generated product.
Draws == (1..Len(adjectives)) \X (1..Len(productTypes)) \X RandomOffsets

\* GenerateRandomProducts(count): ids firstId, firstId+1, ...; ds is the
\* sequence of draws.
GenerateRandomProducts(count, ds, firstId) ==
    [i \in 1..count |->
        GenerateRandomProduct(ds[i][1], ds[i][2], ds[i][3], firstId + i - 1)]

\* ------------------------------------------------------------- Go int
GoInt(hi, lo) == [hi |-> hi, lo |-> lo]

WrapHi(h) == ((h + (HiModulus \div 2)) % HiModulus) - (HiModulus \div 2)

\* x - 1, for lo >= 1
IntPred(x) == GoInt(x.hi, x.lo - 1)
\* x * n for a small n (lo * n stays below 2^60)
IntMulSmall(x, n) == GoInt(WrapHi(x.hi * n), x.lo * n)
\* x + n for a small n
IntAddSmall(x, n) == GoInt(x.hi, x.lo + n)
IntIsNegative(x) == x.hi < 0
\* x >= n, x > n for a small natural n
IntGeSmall(x, n) == x.hi > 0 \/ (x.hi = 0 /\ x.lo >= n)
IntGtSmall(x, n) == x.hi > 0 \/ (x.hi = 0 /\ x.lo > n)

\* ------------------------------------------------------------- results
Result(res, out, n) == [res |-> res, out |-> out, n |-> n]

Min(a, b) == IF a < b THEN a ELSE b

\* ------------------------------------------------------------- in-memory
\* Index of the first element whose id matches, 0 when the scan ends
\* without a match (the `for i, product := range r.products` loops).
MemScan(ps, id) ==
    IF \E i \in 1..Len(ps) : ps[i].id = id
    THEN CHOOSE i \in 1..Len(ps) :
            /\ ps[i].id = id
            /\ \A j \in 1..(i - 1) : ps[j].id # id
    ELSE 0

MemCreate(ps, p) == Append(ps, p)

MemCreateBulk(ps, batch) == ps \o batch

MemGetByID(ps, id) ==
    LET i == MemScan(ps, id)
    IN  IF i > 0 THEN Result("ok", <<ps[i]>>, 0)
        ELSE Result("NotFound", <<>>, 0)

\* List dropping a last page that is shorter than pageSize.
MemListFullPagesOnly(ps, page, pageSize) ==
    LET startIndex == IntMulSmall(IntPred(page), pageSize)
        endIndex == IntAddSmall(startIndex, pageSize)
    IN  IF IntGeSmall(startIndex, Len(ps)) THEN Result("ok", <<>>, 0)
        ELSE IF IntIsNegative(startIndex) THEN Result("panic", <<>>, 0)
        ELSE IF IntGtSmall(endIndex, Len(ps)) THEN Result("ok", <<>>, 0)
        ELSE Result("ok", SubSeq(ps, startIndex.lo + 1, endIndex.lo), 0)

\* List: startIndex, endIndex as Go ints; slicing with a negative bound
\* panics.
MemList(ps, page, pageSize) ==
    LET startIndex == IntMulSmall(IntPred(page), pageSize)
        endIndex == IntAddSmall(startIndex, pageSize)
    IN  IF IntGeSmall(startIndex, Len(ps)) THEN Result("ok", <<>>, 0)
        ELSE IF IntIsNegative(startIndex) THEN Result("panic", <<>>, 0)
        ELSE LET e == IF IntGtSmall(endIndex, Len(ps)) THEN Len(ps)
                      ELSE endIndex.lo
             IN  Result("ok", SubSeq(ps, startIndex.lo + 1, e), 0)

MemGetAll(ps) == Result("ok", ps, 0)

\* Update stamping the creation time instead of the update time.
MemUpdateStampsCreation(ps, id, req, t) ==
    LET i == MemScan(ps, id)
    IN  IF i > 0
        THEN [res |-> "ok",
              products |-> [ps EXCEPT ![i].name = req.name,
                                      ![i].description = req.description,
                                      ![i].price = req.price,
                                      ![i].created_at = t]]
        ELSE [res |-> "NotFound", products |-> ps]

\* Update reporting success when the scan ends without a match.
MemUpdateIgnoresMiss(ps, id, req, t) ==
    LET i == MemScan(ps, id)
    IN  IF i > 0
        THEN [res |-> "ok",
              products |-> [ps EXCEPT ![i].name = req.name,
                                      ![i].description = req.description,
                                      ![i].price = req.price,
                                      ![i].updated_at = t]]
        ELSE [res |-> "ok", products |-> ps]

MemUpdate(ps, id, req, t) ==
    LET i == MemScan(ps, id)
    IN  IF i > 0
        THEN [res |-> "ok",
              products |-> [ps EXCEPT ![i].name = req.name,
                                      ![i].description = req.description,
                                      ![i].price = req.price,
                                      ![i].updated_at = t]]
        ELSE [res |-> "NotFound", products |-> ps]

\* Delete moving the first element, not the last, into the freed index.
MemDeleteOverwriteWithFirst(ps, i) == [ps EXCEPT ![i] = ps[1]]

\* r.products[i] = r.products[len-1]
MemDeleteOverwrite(ps, i) == [ps EXCEPT ![i] = ps[Len(ps)]]
\* Delete without the truncation: the slice keeps its length.
MemDeleteKeepsLength(ps) == ps

\* r.products = r.products[:len-1]
MemDeleteTruncate(ps) == SubSeq(ps, 1, Len(ps) - 1)

MemDelete(ps, id) ==
    LET i == MemScan(ps, id)
    IN  IF i > 0
        THEN [res |-> "ok", products |-> MemDeleteTruncate(MemDeleteOverwrite(ps, i))]
        ELSE [res |-> "NotFound", products |-> ps]

MemDeleteAll(ps) == <<>>

MemCount(ps) == Result("ok", <<>>, Len(ps))

\* ------------------------------------------------------------- persistent
\* The products table: a set of rows, id being the PRIMARY KEY.

\* A float64 bound to the DECIMAL(10,2) column: rounded to two decimals
\* (half away from zero).
RoundCents(price) ==
    LET cents == (price.frac + 5) \div 10
    IN  IF cents = 100 THEN Price(price.whole + 1, 0)
        ELSE Price(price.whole, cents * 10)

\* numeric field overflow: the rounded value needs more than 8 integer digits
NumericFits(price) == RoundCents(price).whole < NumericWholeLimit

StoredRow(p) == [p EXCEPT !.price = RoundCents(p.price)]

\* INSERT INTO products ... : fails on a duplicate key and on overflow.
DbInsert(rows, p) ==
    IF \E r \in rows : r.id = p.id THEN [res |-> "StorageError", rows |-> rows]
    ELSE IF ~NumericFits(p.price) THEN [res |-> "StorageError", rows |-> rows]
    ELSE [res |-> "ok", rows |-> rows \cup {StoredRow(p)}]

\* SELECT * FROM products WHERE id = $1 (sqlx Get: sql.ErrNoRows on no row)
DbGetByID(rows, id) ==
    IF \E r \in rows : r.id = id
    THEN Result("ok", <<CHOOSE r \in rows : r.id = id>>, 0)
    ELSE Result("NotFound", <<>>, 0)

\* The orders ORDER BY created_at DESC allows: rows of equal created_at come
\* in any order, and the order may differ from one query to the next.
OrderedByCreatedAtDesc(rows) ==
    LET n == Cardinality(rows)
    IN  { s \in [1..n -> rows] :
            /\ \A i, j \in 1..n : i # j => s[i] # s[j]
            /\ \A i \in 1..(n - 1) : s[i].created_at >= s[i + 1].created_at }

\* LIMIT pageSize OFFSET offset over one ordered result
LimitOffset(s, limit, offset) ==
    IF IntGeSmall(offset, Len(s)) THEN <<>>
    ELSE SubSeq(s, offset.lo + 1, Min(offset.lo + limit, Len(s)))

\* List: the set of results the query may return; a negative OFFSET is an
\* error of the database.
DbList(rows, page, pageSize) ==
    LET offset == IntMulSmall(IntPred(page), pageSize)
    IN  IF IntIsNegative(offset) THEN { Result("StorageError", <<>>, 0) }
        ELSE { Result("ok", LimitOffset(s, pageSize, offset), 0) :
                 s \in OrderedByCreatedAtDesc(rows) }

DbGetAll(rows) == { Result("ok", s, 0) : s \in OrderedByCreatedAtDesc(rows) }

\* UPDATE products SET ... WHERE id = $5: the affected-row count is not read.
\* The bound price is coerced to DECIMAL(10,2) when the statement is planned,
\* so an overflowing price is an error whether or not a row has the id.
DbUpdate(rows, id, req, t) ==
    IF ~NumericFits(req.price)
    THEN [res |-> "StorageError", rows |-> rows]
    ELSE [res |-> "ok",
          rows |-> { IF r.id = id
                     THEN [r EXCEPT !.name = req.name,
                                    !.description = req.description,
                                    !.price = RoundCents(req.price),
                                    !.updated_at = t]
                     ELSE r : r \in rows }]

\* Delete without the rowsAffected == 0 test.
DbDeleteUncheckedRows(rows, id) ==
    [res |-> "ok", rows |-> { r \in rows : r.id # id }]

\* DELETE FROM products WHERE id = $1, then RowsAffected
DbDelete(rows, id) ==
    IF \E r \in rows : r.id = id
    THEN [res |-> "ok", rows |-> { r \in rows : r.id # id }]
    ELSE [res |-> "NotFound", rows |-> rows]

DbDeleteAll(rows) == {}

DbCount(rows) == Result("ok", <<>>, Cardinality(rows))

\* The insert issued on r.db instead of tx: it commits on its own.
TxExecAutocommit(committed, uncommitted, p) ==
    LET r == DbInsert(committed \cup uncommitted, p)
    IN  [res |-> r.res,
         committed |-> IF r.res = "ok" THEN committed \cup {StoredRow(p)} ELSE committed,
         uncommitted |-> uncommitted]

\* tx.NamedExecContext inside CreateBulk: the row joins the transaction's
\* uncommitted rows; committed rows are untouched until Commit.
TxExec(committed, uncommitted, p) ==
    LET r == DbInsert(committed \cup uncommitted, p)
    IN  [res |-> r.res,
         committed |-> committed,
         uncommitted |-> IF r.res = "ok" THEN uncommitted \cup {StoredRow(p)}
                         ELSE uncommitted]

\* tx.Rollback(): the uncommitted rows are dropped.
TxRollback(committed, uncommitted) == committed

\* tx.Commit(): the uncommitted rows become visible.
TxCommit(committed, uncommitted) == committed \cup uncommitted

\* CreateBulk from BeginTxx to its return, with the store reachable: the
\* inserts in order, Rollback at the first one that fails, Commit after the
\* last.
RECURSIVE TxRun(_, _, _, _)
TxRun(committed, uncommitted, batch, i) ==
    IF i > Len(batch)
    THEN [res |-> "ok", rows |-> TxCommit(committed, uncommitted)]
    ELSE LET r == TxExec(committed, uncommitted, batch[i])
         IN  IF r.res = "ok"
             THEN TxRun(r.committed, r.uncommitted, batch, i + 1)
             ELSE [res |-> r.res, rows |-> TxRollback(r.committed, r.uncommitted)]

DbCreateBulk(rows, batch) == TxRun(rows, {}, batch, 1)

\* ------------------------------------------------------------- state
VARIABLES
    backend,    \* "mem" or "db": the backend this process was built with
    products,   \* ProductMemoryRepository.products
    table,      \* committed rows of the products table
    now,        \* the clock time.Now() reads
    nextId,     \* the next uuid uuid.New() hands out
    last,       \* the last repository call that returned, and what it returned
    tx,         \* the transaction of a persistent CreateBulk in progress
    expected,   \* products added minus products deleted since the last DeleteAll
    enum        \* a client reading List(1,ps), List(2,ps), ... to the first empty page

vars == <<backend, products, table, now, nextId, last, tx, expected, enum>>

\* Concurrent callers of the in-memory repository (see the goroutines section).
VARIABLES
    pc,         \* where each goroutine is
    call,       \* the call it is running: operation, arguments, locals
    ret,        \* what its call returned
    lin,        \* what the call returns when run alone on `abs`
    abs,        \* the dataset with the calls applied one at a time
    rw          \* the RWMutex: writer inside Lock, writer holding, readers holding

cvars == <<pc, call, ret, lin, abs, rw>>

\* Further observers of the repositories (see their sections below).
VARIABLES
    both,       \* one call applied to both backends: what each of them returned
    resp,       \* the HTTP response of the last handler that ran
    heap,       \* arrays of products: backing arrays of slices, products behind pointers
    backing,    \* r.products as a slice header: array, length, capacity
    held,       \* the result of the caller's last read, the argument of its last write
    serving     \* per goroutine: the HTTP request it serves and how far it got

xvars == <<both, resp, heap, backing, held, serving>>
allvars == <<vars, cvars, xvars>>

\* Page arguments: in range, out of range, and 2^62+1, a page for which
\* (page-1)*pageSize leaves the 64-bit range when pageSize >= 2.
Pages == { GoInt(0, 1), GoInt(0, 2), GoInt(0, 100), GoInt(4, 1) }
PageSizes == { 1, 4, 10 }

Ids == 1..MaxIds

Call(op, id, page, pageSize, req, r) ==
    [op |-> op, id |-> id, page |-> page, pageSize |-> pageSize, req |-> req,
     res |-> r.res, out |-> r.out, n |-> r.n]

NoPage == GoInt(0, 0)
NoTx == [active |-> FALSE, batch |-> <<>>, idx |-> 0, uncommitted |-> {}, before |-> {}]
NoEnum == [phase |-> "idle", pageSize |-> 0, page |-> 0, acc |-> <<>>]

Size == IF backend = "mem" THEN Len(products) ELSE Cardinality(table)
Stored == IF backend = "mem" THEN { products[i] : i \in 1..Len(products) } ELSE table
\* The ids of the stored products.
StoredIds == { p.id : p \in Stored }

\* A repository call can start: no bulk transaction and no enumeration is
\* in progress (one caller, one call at a time).
Idle == ~tx.active /\ enum.phase = "idle"

Procs == {"g1", "g2"}
NoProc == "none"

NoCall == [op |-> "none", id |-> 0, page |-> NoPage, pageSize |-> 0,
           req |-> NoRequest, batch |-> <<>>, i |-> 0, stmt |-> 0, acq |-> 0]
NoResult == Result("none", <<>>, 0)

NoBoth == [op |-> "none", id |-> 0, req |-> NoRequest, mem |-> NoResult, db |-> NoResult]

NoResponse == [handler |-> "none", req |-> NoRequest, status |-> 0, message |-> "",
               cause |-> "none", missing |-> FALSE]

\* What a goroutine of the HTTP server holds of the request it serves: the
\* handler and its parsed parameters, the step it is at ("first": its first
\* repository call runs, "second": its second one, "responded"), what the
\* first call returned, whether its id matched no product when the first
\* call ran, and the response once it is sent.
NoServing ==
    [handler |-> "none", id |-> 0, req |-> NoRequest, page |-> 0, pageSize |-> 0,
     step |-> "none", first |-> NoResult, missing |-> FALSE, status |-> 0, body |-> <<>>,
     totalCount |-> 0]

\* Arrays live at addresses 1..MaxAddr; address 0 is no array (nil, or the
\* zero-length array of make([]T, 0)). A slice is a window on an array:
\* elements off+1 .. off+len of it, with room up to off+cap.
Addrs == 1..MaxAddr
Slice(arr, off, len, cap) == [arr |-> arr, off |-> off, len |-> len, cap |-> cap]
NoSlice == Slice(0, 0, 0, 0)

\* What the caller holds: the result of its last read with its contents at
\* the time it was returned (as changed since by the caller only), and the
\* product or slice it passed to its last Create/CreateBulk.
NoHeld == [result |-> NoSlice, snap |-> <<>>, arg |-> NoSlice]

\* Both repositories as constructed, and nothing called yet.
InitStore ==
    /\ products = <<>>
    /\ table = {}
    /\ now = 0
    /\ nextId = 1
    /\ last = Call("none", 0, NoPage, 0, NoRequest, Result("ok", <<>>, 0))
    /\ tx = NoTx
    /\ expected = 0
    /\ enum = NoEnum
    /\ pc = [p \in Procs |-> "idle"]
    /\ call = [p \in Procs |-> NoCall]
    /\ ret = [p \in Procs |-> NoResult]
    /\ lin = [p \in Procs |-> NoResult]
    /\ abs = <<>>
    /\ rw = [pending |-> NoProc, writer |-> NoProc, readers |-> {}]
    /\ both = NoBoth
    /\ resp = NoResponse
    /\ heap = [a \in Addrs |-> <<>>]
    /\ backing = NoSlice
    /\ held = NoHeld
    /\ serving = [p \in Procs |-> NoServing]

Init ==
    /\ backend \in {"mem", "db"}
    /\ InitStore

\* The clock advances.
Tick ==
    /\ now < MaxTime
    /\ now' = now + 1
    /\ UNCHANGED <<backend, products, table, nextId, last, tx, expected, enum, cvars, xvars>>

\* Create(ctx, &p) on the backend in use; fail: the store is unreachable.
CreateCall(p, req, fail) ==
    /\ IF backend = "mem"
       THEN /\ ~fail
            /\ products' = MemCreate(products, p)
            /\ expected' = expected + 1
            /\ last' = Call("Create", p.id, NoPage, 0, req, Result("ok", <<p>>, 0))
            /\ UNCHANGED table
       ELSE LET r == IF fail THEN [res |-> "StorageError", rows |-> table]
                     ELSE DbInsert(table, p)
            IN  /\ table' = r.rows
                /\ last' = Call("Create", p.id, NoPage, 0, req, Result(r.res, <<p>>, 0))
                /\ UNCHANGED <<products, expected>>

\* CreateProduct: req.ToProduct() then repo.Create.
CreateProduct(req, fail) ==
    /\ Idle
    /\ Size < MaxProducts
    /\ nextId <= MaxIds
    /\ CreateCall(ToProduct(req, nextId, now), req, fail)
    /\ nextId' = nextId + 1
    /\ UNCHANGED <<backend, now, tx, enum, cvars, xvars>>

\* Create called with a product the caller already holds (one it read back).
CreateAgain(p, fail) ==
    /\ Idle
    /\ Size < MaxProducts
    /\ p \in Stored
    /\ CreateCall(p, NoRequest, fail)
    /\ UNCHANGED <<backend, now, nextId, tx, enum, cvars, xvars>>

GetByID(id, fail) ==
    /\ Idle
    /\ LET r == IF backend = "mem" THEN MemGetByID(products, id)
                ELSE IF fail THEN Result("StorageError", <<>>, 0)
                ELSE DbGetByID(table, id)
       IN  last' = Call("GetByID", id, NoPage, 0, NoRequest, r)
    /\ backend = "mem" => ~fail
    /\ UNCHANGED <<backend, products, table, now, nextId, tx, expected, enum, cvars, xvars>>

List(page, pageSize, fail) ==
    /\ Idle
    /\ backend = "mem" => ~fail
    /\ \E r \in (IF backend = "mem" THEN { MemList(products, page, pageSize) }
                 ELSE IF fail THEN { Result("StorageError", <<>>, 0) }
                 ELSE DbList(table, page, pageSize)) :
          last' = Call("List", 0, page, pageSize, NoRequest, r)
    /\ UNCHANGED <<backend, products, table, now, nextId, tx, expected, enum, cvars, xvars>>

GetAll(fail) ==
    /\ Idle
    /\ backend = "mem" => ~fail
    /\ \E r \in (IF backend = "mem" THEN { MemGetAll(products) }
                 ELSE IF fail THEN { Result("StorageError", <<>>, 0) }
                 ELSE DbGetAll(table)) :
          last' = Call("GetAll", 0, NoPage, 0, NoRequest, r)
    /\ UNCHANGED <<backend, products, table, now, nextId, tx, expected, enum, cvars, xvars>>

Count(fail) ==
    /\ Idle
    /\ backend = "mem" => ~fail
    /\ LET r == IF backend = "mem" THEN MemCount(products)
                ELSE IF fail THEN Result("StorageError", <<>>, 0)
                ELSE DbCount(table)
       IN  last' = Call("Count", 0, NoPage, 0, NoRequest, r)
    /\ UNCHANGED <<backend, products, table, now, nextId, tx, expected, enum, cvars, xvars>>

Update(id, req, fail) ==
    /\ Idle
    /\ IF backend = "mem"
       THEN LET r == MemUpdate(products, id, req, now)
            IN  /\ ~fail
                /\ products' = r.products
                /\ last' = Call("Update", id, NoPage, 0, req, Result(r.res, <<>>, 0))
                /\ UNCHANGED table
       ELSE LET r == IF fail THEN [res |-> "StorageError", rows |-> table]
                     ELSE DbUpdate(table, id, req, now)
            IN  /\ table' = r.rows
                /\ last' = Call("Update", id, NoPage, 0, req, Result(r.res, <<>>, 0))
                /\ UNCHANGED products
    /\ UNCHANGED <<backend, now, nextId, tx, expected, enum, cvars, xvars>>

Delete(id, fail) ==
    /\ Idle
    /\ IF backend = "mem"
       THEN LET r == MemDelete(products, id)
            IN  /\ ~fail
                /\ products' = r.products
                /\ expected' = IF r.res = "ok" THEN expected - 1 ELSE expected
                /\ last' = Call("Delete", id, NoPage, 0, NoRequest, Result(r.res, <<>>, 0))
                /\ UNCHANGED table
       ELSE LET r == IF fail THEN [res |-> "StorageError", rows |-> table]
                     ELSE DbDelete(table, id)
            IN  /\ table' = r.rows
                /\ last' = Call("Delete", id, NoPage, 0, NoRequest, Result(r.res, <<>>, 0))
                /\ UNCHANGED <<products, expected>>
    /\ UNCHANGED <<backend, now, nextId, tx, enum, cvars, xvars>>

DeleteAll(fail) ==
    /\ Idle
    /\ IF backend = "mem"
       THEN /\ ~fail
            /\ products' = MemDeleteAll(products)
            /\ expected' = 0
            /\ last' = Call("DeleteAll", 0, NoPage, 0, NoRequest, Result("ok", <<>>, 0))
            /\ UNCHANGED table
       ELSE /\ table' = IF fail THEN table ELSE DbDeleteAll(table)
            /\ last' = Call("DeleteAll", 0, NoPage, 0, NoRequest,
                            Result(IF fail THEN "StorageError" ELSE "ok", <<>>, 0))
            /\ UNCHANGED <<products, expected>>
    /\ UNCHANGED <<backend, now, nextId, tx, enum, cvars, xvars>>

\* ------------------------------------------------------------- bulk
\* The clock readings of the persistent GenerateAndSaveBulkProducts: two
\* time.Now() calls per product (CreatedAt, UpdatedAt), never decreasing.
ClockReadings(count) ==
    { ts \in [1..count -> (now..MaxTime) \X (now..MaxTime)] :
        /\ \A i \in 1..count : ts[i][1] <= ts[i][2]
        /\ \A i \in 1..(count - 1) : ts[i][2] <= ts[i + 1][1] }

\* The in-memory variant reads the clock once, before the loop.
SingleReading(count) == { [i \in 1..count |-> <<now, now>>] }

\* models.Product{ID: rp.ID, ..., CreatedAt: ..., UpdatedAt: ...}
GeneratedBatch(count, ds, ts) ==
    LET rps == GenerateRandomProducts(count, ds, nextId)
    IN  [i \in 1..count |->
            Product(rps[i].id, rps[i].name, rps[i].description, rps[i].price,
                    ts[i][1], ts[i][2])]

\* CreateBulk(ctx, batch). In memory: one append. Persistent: BeginTxx, and
\* the inserts and the commit follow as steps of the transaction.
CreateBulkCall(batch, fail) ==
    IF backend = "mem"
    THEN /\ ~fail
         /\ products' = MemCreateBulk(products, batch)
         /\ expected' = expected + Len(batch)
         /\ last' = Call("CreateBulk", 0, NoPage, 0, NoRequest,
                         Result("ok", batch, 0))
         /\ UNCHANGED <<table, tx>>
    ELSE /\ IF fail
            THEN /\ last' = Call("CreateBulk", 0, NoPage, 0, NoRequest,
                                 Result("StorageError", batch, 0))
                 /\ UNCHANGED tx
            ELSE /\ last' = Call("CreateBulk", 0, NoPage, 0, NoRequest,
                                 Result("running", batch, 0))
                 /\ tx' = [active |-> TRUE, batch |-> batch, idx |-> 1,
                           uncommitted |-> {}, before |-> table]
         /\ UNCHANGED <<products, table, expected>>

GenerateAndSaveBulkProducts(count, ds, ts, fail) ==
    /\ Idle
    /\ Size + count <= MaxProducts
    /\ nextId + count - 1 <= MaxIds
    /\ CreateBulkCall(GeneratedBatch(count, ds, ts), fail)
    /\ nextId' = nextId + count
    /\ now' = ts[count][2]
    /\ UNCHANGED <<backend, enum, cvars, xvars>>

\* CreateBulk called with a batch that ends with a product the caller
\* already holds.
CreateBulkAgain(count, ds, p, fail) ==
    /\ Idle
    /\ p \in Stored
    /\ backend = "mem" => Size + count + 1 <= MaxProducts
    /\ nextId + count - 1 <= MaxIds
    /\ CreateBulkCall(GeneratedBatch(count, ds, [i \in 1..count |-> <<now, now>>])
                        \o <<p>>, fail)
    /\ nextId' = nextId + count
    /\ UNCHANGED <<backend, now, enum, cvars, xvars>>

\* One pass of the loop `for _, product := range products` of the
\* persistent CreateBulk: on an error, Rollback and return it.
TxInsert(fail) ==
    /\ tx.active
    /\ tx.idx <= Len(tx.batch)
    /\ LET r == IF fail
                THEN [res |-> "StorageError", committed |-> table,
                      uncommitted |-> tx.uncommitted]
                ELSE TxExec(table, tx.uncommitted, tx.batch[tx.idx])
       IN  IF r.res = "ok"
           THEN /\ table' = r.committed
                /\ tx' = [tx EXCEPT !.idx = tx.idx + 1, !.uncommitted = r.uncommitted]
                /\ UNCHANGED last
           ELSE /\ table' = TxRollback(r.committed, r.uncommitted)
                /\ tx' = NoTx
                /\ last' = [last EXCEPT !.res = r.res, !.n = tx.idx]
    /\ UNCHANGED <<backend, products, now, nextId, expected, enum, cvars, xvars>>

\* return tx.Commit(); a failed commit leaves nothing behind.
TxCommitStep(fail) ==
    /\ tx.active
    /\ tx.idx > Len(tx.batch)
    /\ table' = IF fail THEN TxRollback(table, tx.uncommitted)
                ELSE TxCommit(table, tx.uncommitted)
    /\ tx' = NoTx
    /\ last' = [last EXCEPT !.res = IF fail THEN "StorageError" ELSE "ok",
                            !.n = tx.idx]
    /\ UNCHANGED <<backend, products, now, nextId, expected, enum, cvars, xvars>>

\* ------------------------------------------------------------- enumeration
\* A client of List: pages 1, 2, ... of one page size, to the first empty
\* page.
EnumStart(pageSize) ==
    /\ Idle
    /\ enum' = [phase |-> "paging", pageSize |-> pageSize, page |-> 1, acc |-> <<>>]
    /\ last' = Call("Enumerate", 0, NoPage, pageSize, NoRequest, Result("ok", <<>>, 0))
    /\ UNCHANGED <<backend, products, table, now, nextId, tx, expected, cvars, xvars>>

EnumPage ==
    /\ enum.phase = "paging"
    /\ \E r \in (IF backend = "mem"
                 THEN { MemList(products, GoInt(0, enum.page), enum.pageSize) }
                 ELSE DbList(table, GoInt(0, enum.page), enum.pageSize)) :
          enum' = IF r.out = <<>>
                  THEN [enum EXCEPT !.phase = "done"]
                  ELSE [enum EXCEPT !.page = enum.page + 1, !.acc = enum.acc \o r.out]
    /\ UNCHANGED <<backend, products, table, now, nextId, last, tx, expected, cvars, xvars>>

EnumEnd ==
    /\ enum.phase = "done"
    /\ enum' = NoEnum
    /\ UNCHANGED <<backend, products, table, now, nextId, last, tx, expected, cvars, xvars>>

\* ------------------------------------------------------------- specification
Next ==
    \/ Tick
    \/ \E req \in Requests, fail \in BOOLEAN : CreateProduct(req, fail)
    \/ \E p \in Stored, fail \in BOOLEAN : CreateAgain(p, fail)
    \/ \E count \in 1..MaxBulk, fail \in BOOLEAN :
          \E ds \in [1..count -> Draws],
             ts \in (IF backend = "mem" THEN SingleReading(count) ELSE ClockReadings(count)) :
             GenerateAndSaveBulkProducts(count, ds, ts, fail)
    \/ \E count \in 0..(MaxBulk - 1), p \in Stored, fail \in BOOLEAN :
          \E ds \in [1..count -> Draws] : CreateBulkAgain(count, ds, p, fail)
    \/ \E fail \in BOOLEAN : TxInsert(fail)
    \/ \E fail \in BOOLEAN : TxCommitStep(fail)
    \/ \E id \in Ids, fail \in BOOLEAN : GetByID(id, fail)
    \/ \E page \in Pages, pageSize \in PageSizes, fail \in BOOLEAN : List(page, pageSize, fail)
    \/ \E fail \in BOOLEAN : GetAll(fail)
    \/ \E fail \in BOOLEAN : Count(fail)
    \/ \E id \in Ids, req \in Requests, fail \in BOOLEAN : Update(id, req, fail)
    \/ \E id \in Ids, fail \in BOOLEAN : Delete(id, fail)
    \/ \E fail \in BOOLEAN : DeleteAll(fail)
    \/ \E pageSize \in PageSizes : EnumStart(pageSize)
    \/ EnumPage
    \/ EnumEnd

Spec == Init /\ [][Next]_allvars

\* ------------------------------------------------------------- both backends
\* One caller applying each call to an in-memory repository and to a
\* persistent one, both starting empty and both reachable: the same
\* arguments (for Create and CreateBulk the same products) go to both.

InitBoth ==
    /\ backend = "both"
    /\ InitStore

Both(op, id, req, m, d) == [op |-> op, id |-> id, req |-> req, mem |-> m, db |-> d]

BothCreate(req) ==
    /\ Len(products) < MaxProducts /\ Cardinality(table) < MaxProducts
    /\ nextId <= MaxIds
    /\ LET p == ToProduct(req, nextId, now)
           d == DbInsert(table, p)
       IN  /\ products' = MemCreate(products, p)
           /\ table' = d.rows
           /\ both' = Both("Create", p.id, req, Result("ok", <<>>, 0),
                           Result(d.res, <<>>, 0))
    /\ nextId' = nextId + 1
    /\ UNCHANGED <<backend, now, last, tx, expected, enum, cvars, serving, resp, heap, backing, held>>

BothCreateBulk(count, ds) ==
    /\ Len(products) + count <= MaxProducts /\ Cardinality(table) + count <= MaxProducts
    /\ nextId + count - 1 <= MaxIds
    /\ LET batch == GeneratedBatch(count, ds, [i \in 1..count |-> <<now, now>>])
           d == DbCreateBulk(table, batch)
       IN  /\ products' = MemCreateBulk(products, batch)
           /\ table' = d.rows
           /\ both' = Both("CreateBulk", 0, NoRequest, Result("ok", <<>>, 0),
                           Result(d.res, <<>>, 0))
    /\ nextId' = nextId + count
    /\ UNCHANGED <<backend, now, last, tx, expected, enum, cvars, serving, resp, heap, backing, held>>

BothGetByID(id) ==
    /\ both' = Both("GetByID", id, NoRequest, MemGetByID(products, id), DbGetByID(table, id))
    /\ UNCHANGED <<vars, cvars, serving, resp, heap, backing, held>>

BothUpdate(id, req) ==
    /\ LET m == MemUpdate(products, id, req, now)
           d == DbUpdate(table, id, req, now)
       IN  /\ products' = m.products
           /\ table' = d.rows
           /\ both' = Both("Update", id, req, Result(m.res, <<>>, 0), Result(d.res, <<>>, 0))
    /\ UNCHANGED <<backend, now, nextId, last, tx, expected, enum, cvars, serving,
                   resp, heap, backing, held>>

BothDelete(id) ==
    /\ LET m == MemDelete(products, id)
           d == DbDelete(table, id)
       IN  /\ products' = m.products
           /\ table' = d.rows
           /\ both' = Both("Delete", id, NoRequest, Result(m.res, <<>>, 0),
                           Result(d.res, <<>>, 0))
    /\ UNCHANGED <<backend, now, nextId, last, tx, expected, enum, cvars, serving,
                   resp, heap, backing, held>>

BothDeleteAll ==
    /\ products' = MemDeleteAll(products)
    /\ table' = DbDeleteAll(table)
    /\ both' = Both("DeleteAll", 0, NoRequest, Result("ok", <<>>, 0), Result("ok", <<>>, 0))
    /\ UNCHANGED <<backend, now, nextId, last, tx, expected, enum, cvars, serving,
                   resp, heap, backing, held>>

BothCount ==
    /\ both' = Both("Count", 0, NoRequest, MemCount(products), DbCount(table))
    /\ UNCHANGED <<vars, cvars, serving, resp, heap, backing, held>>

NextBoth ==
    \/ Tick
    \/ \E req \in Requests : BothCreate(req)
    \/ \E count \in 1..MaxBulk : \E ds \in [1..count -> Draws] : BothCreateBulk(count, ds)
    \/ \E id \in Ids : BothGetByID(id)
    \/ \E id \in Ids, req \in Requests : BothUpdate(id, req)
    \/ \E id \in Ids : BothDelete(id)
    \/ BothDeleteAll
    \/ BothCount

SpecBoth == InitBoth /\ [][NextBoth]_allvars

\* ------------------------------------------------------------- handlers
\* ProductHandler (persistent) and ProductMemoryHandler (in memory): one
\* request at a time, each handler from its first statement to its response.

StatusOK == 200
StatusCreated == 201
StatusBadRequest == 400
StatusNotFound == 404
StatusUnprocessableEntity == 422
StatusInternalServerError == 500

\* The id path parameter: 0 stands for a string uuid.Parse rejects.
PathIds == 0..MaxIds
ParsesAsUUID(idStr) == idStr # 0

\* A name of 256 characters, one more than the max=255 tag allows.
Quadruple(str) == str \o str \o str \o str
LongName == Quadruple(Quadruple(Quadruple("abcd")))

\* Payloads sent to the handlers: the valid ones, a name shorter than three
\* characters, a name longer than 255, a zero price and a negative price.
HandlerRequests ==
    Requests \cup { [name |-> "ab", description |-> "", price |-> Price(5, 0)],
                    [name |-> LongName, description |-> "", price |-> Price(5, 0)],
                    [name |-> "Free", description |-> "", price |-> Price(0, 0)],
                    [name |-> "Refund", description |-> "", price |-> Price(-1, 0)] }

\* c.Validate(&req): the validate tags of ProductRequest
\* (name: required,min=3,max=255; price: required,min=0).
Validate(req) ==
    /\ req.name # ""
    /\ Len(req.name) >= 3
    /\ Len(req.name) <= 255
    /\ req.price # Price(0, 0)
    /\ req.price.whole >= 0

\* A response. req: the payload the request carried (NoRequest for the
\* handlers that read none); cause: the kind of error of the repository call that ended
\* the handler ("none" when no repository call failed); missing: the request
\* reached the repository and no product with its id existed then.
Response(handler, req, status, message, cause, missing) ==
    [handler |-> handler, req |-> req, status |-> status, message |-> message,
     cause |-> cause, missing |-> missing]

\* Repository calls as the handlers make them; fail: the store is
\* unreachable (the in-memory repository has no such failure).
RepoGetByID(id, fail) ==
    IF backend = "mem" THEN MemGetByID(products, id)
    ELSE IF fail THEN Result("StorageError", <<>>, 0)
    ELSE DbGetByID(table, id)

\* Requests are served by goroutines. A handler with one repository call
\* is one step; a handler with two is two steps of the goroutine serving it,
\* and steps of other requests come in between.

\* page, _ := strconv.Atoi(...); if page < 1 { page = 1 }
PageParam(q) == IF q < 1 THEN 1 ELSE q

\* if pageSize < 1 || pageSize > 100 { pageSize = 10 }
PageSizeParam(q) == IF q < 1 \/ q > 100 THEN 10 ELSE q

\* The page and pageSize query parameters as numbers (0: absent).
PageQueries == { 0, 2 }
PageSizeQueries == { 1, 101 }

\* The request goroutine p serves, at its first repository call.
Serving(handler, id, req, page, pageSize) ==
    [NoServing EXCEPT !.handler = handler, !.id = id, !.req = req, !.page = page,
                      !.pageSize = pageSize, !.step = "first"]

\* The goroutines that serve the requests with two repository calls.
HttpProcs == { "g1" }

InitHttp == Init

HandleCreateProduct(bound, req, fail) ==
    /\ backend = "mem" => ~fail
    /\ IF ~bound
       THEN /\ resp' = Response("CreateProduct", req, StatusBadRequest,
                                "Invalid request payload", "none", FALSE)
            /\ UNCHANGED <<products, table, nextId>>
       ELSE IF ~Validate(req)
       THEN /\ resp' = Response("CreateProduct", req, StatusUnprocessableEntity,
                                "validation failed", "none", FALSE)
            /\ UNCHANGED <<products, table, nextId>>
       ELSE /\ Size < MaxProducts
            /\ nextId <= MaxIds
            /\ nextId' = nextId + 1
            /\ LET p == ToProduct(req, nextId, now)
                   d == IF fail THEN [res |-> "StorageError", rows |-> table]
                        ELSE DbInsert(table, p)
               IN  IF backend = "mem"
                   THEN /\ products' = MemCreate(products, p)
                        /\ resp' = Response("CreateProduct", req, StatusCreated, "", "none", FALSE)
                        /\ UNCHANGED table
                   ELSE /\ table' = d.rows
                        /\ resp' = IF d.res = "ok"
                                   THEN Response("CreateProduct", req, StatusCreated, "", "none",
                                                 FALSE)
                                   ELSE Response("CreateProduct", req, StatusInternalServerError,
                                                 "Failed to create product", d.res, FALSE)
                        /\ UNCHANGED products
    /\ UNCHANGED <<backend, now, last, tx, expected, enum, cvars, serving, both, heap, backing, held>>

HandleGetProduct(idStr, fail) ==
    /\ backend = "mem" => ~fail
    /\ IF ~ParsesAsUUID(idStr)
       THEN resp' = Response("GetProduct", NoRequest, StatusBadRequest, "Invalid product ID",
                             "none", FALSE)
       ELSE LET g == RepoGetByID(idStr, fail)
            IN  resp' = IF g.res # "ok"
                        THEN Response("GetProduct", NoRequest, StatusNotFound, "Product not found",
                                      g.res, idStr \notin StoredIds)
                        ELSE Response("GetProduct", NoRequest, StatusOK, "", "none", FALSE)
    /\ UNCHANGED <<vars, cvars, serving, both, heap, backing, held>>

\* UpdateProduct up to the return of repo.Update. The handler goes on to
\* repo.GetByID in a later step: the lock is released (the statement has
\* ended) in between, and other requests are served meanwhile.
HandleUpdateProduct(p, idStr, bound, req, failUpdate) ==
    /\ serving[p].step = "none"
    /\ backend = "mem" => ~failUpdate
    /\ IF ~ParsesAsUUID(idStr)
       THEN /\ resp' = Response("UpdateProduct", req, StatusBadRequest, "Invalid product ID",
                                "none", FALSE)
            /\ UNCHANGED <<products, table, serving>>
       ELSE IF ~bound
       THEN /\ resp' = Response("UpdateProduct", req, StatusBadRequest,
                                "Invalid request payload", "none", FALSE)
            /\ UNCHANGED <<products, table, serving>>
       ELSE IF ~Validate(req)
       THEN /\ resp' = Response("UpdateProduct", req, StatusUnprocessableEntity,
                                "validation failed", "none", FALSE)
            /\ UNCHANGED <<products, table, serving>>
       ELSE LET missing == idStr \notin StoredIds
                m == MemUpdate(products, idStr, req, now)
                d == IF failUpdate THEN [res |-> "StorageError", rows |-> table]
                     ELSE DbUpdate(table, idStr, req, now)
                u == IF backend = "mem" THEN m.res ELSE d.res
            IN  /\ products' = IF backend = "mem" THEN m.products ELSE products
                /\ table' = IF backend = "mem" THEN table ELSE d.rows
                /\ IF u # "ok"
                   THEN /\ resp' = Response("UpdateProduct", req, StatusInternalServerError,
                                            "Failed to update product", u, missing)
                        /\ UNCHANGED serving
                   ELSE /\ serving' = [serving EXCEPT ![p] =
                                          [Serving("UpdateProduct", idStr, req, 0, 0)
                                              EXCEPT !.step = "second", !.missing = missing]]
                        /\ UNCHANGED resp
    /\ UNCHANGED <<backend, now, nextId, last, tx, expected, enum, cvars,
                   both, heap, backing, held>>

\* UpdateProduct from repo.GetByID to the response.
HandleUpdateProductGet(p, failGet) ==
    /\ serving[p].handler = "UpdateProduct"
    /\ serving[p].step = "second"
    /\ backend = "mem" => ~failGet
    /\ LET g == RepoGetByID(serving[p].id, failGet)
       IN  resp' = IF g.res # "ok"
                   THEN Response("UpdateProduct", serving[p].req, StatusInternalServerError,
                                 "Failed to retrieve updated product", g.res,
                                 serving[p].missing)
                   ELSE Response("UpdateProduct", serving[p].req, StatusOK, "", "none",
                                 serving[p].missing)
    /\ serving' = [serving EXCEPT ![p] = NoServing]
    /\ UNCHANGED <<vars, cvars, both, heap, backing, held>>

HandleDeleteProduct(idStr, fail) ==
    /\ backend = "mem" => ~fail
    /\ IF ~ParsesAsUUID(idStr)
       THEN /\ resp' = Response("DeleteProduct", NoRequest, StatusBadRequest, "Invalid product ID",
                                "none", FALSE)
            /\ UNCHANGED <<products, table>>
       ELSE LET missing == idStr \notin StoredIds
                m == MemDelete(products, idStr)
                d == IF fail THEN [res |-> "StorageError", rows |-> table]
                     ELSE DbDelete(table, idStr)
                r == IF backend = "mem" THEN m.res ELSE d.res
            IN  /\ products' = IF backend = "mem" THEN m.products ELSE products
                /\ table' = IF backend = "mem" THEN table ELSE d.rows
                /\ resp' = IF r # "ok"
                           THEN Response("DeleteProduct", NoRequest, StatusInternalServerError,
                                         "Failed to delete product", r, missing)
                           ELSE Response("DeleteProduct", NoRequest, StatusOK,
                                         IF backend = "mem"
                                         THEN "Product deleted successfully from memory"
                                         ELSE "Product deleted successfully",
                                         "none", missing)
    /\ UNCHANGED <<backend, now, nextId, last, tx, expected, enum, cvars, serving,
                   both, heap, backing, held>>

HandleDeleteAllProducts(fail) ==
    /\ backend = "mem" => ~fail
    /\ products' = IF backend = "mem" THEN MemDeleteAll(products) ELSE products
    /\ table' = IF backend = "mem" \/ fail THEN table ELSE DbDeleteAll(table)
    /\ resp' = IF fail
               THEN Response("DeleteAllProducts", NoRequest, StatusInternalServerError,
                             "Failed to delete all products", "StorageError", FALSE)
               ELSE Response("DeleteAllProducts", NoRequest, StatusOK,
                             IF backend = "mem"
                             THEN "All products deleted successfully from memory"
                             ELSE "All products deleted successfully",
                             "none", FALSE)
    /\ UNCHANGED <<backend, now, nextId, last, tx, expected, enum, cvars, serving,
                   both, heap, backing, held>>

\* ListProducts. The persistent handler calls repo.List and responds; the
\* in-memory handler goes on to repo.Count in a later step.
HandleListProducts(p, pageQuery, pageSizeQuery, fail) ==
    /\ serving[p].step = "none"
    /\ backend = "mem" => ~fail
    /\ LET page == PageParam(pageQuery)
           pageSize == PageSizeParam(pageSizeQuery)
       IN  \E r \in (IF backend = "mem" THEN { MemList(products, GoInt(0, page), pageSize) }
                    ELSE IF fail THEN { Result("StorageError", <<>>, 0) }
                    ELSE DbList(table, GoInt(0, page), pageSize)) :
              IF r.res # "ok"
              THEN /\ resp' = Response("ListProducts", NoRequest, StatusInternalServerError,
                                       "Failed to retrieve products", r.res, FALSE)
                   /\ UNCHANGED serving
              ELSE IF backend = "mem"
              THEN /\ serving' = [serving EXCEPT ![p] =
                                     [Serving("ListProducts", 0, NoRequest, page, pageSize)
                                         EXCEPT !.step = "second", !.first = r]]
                   /\ UNCHANGED resp
              ELSE /\ resp' = Response("ListProducts", NoRequest, StatusOK, "", "none", FALSE)
                   /\ UNCHANGED serving
    /\ UNCHANGED <<vars, cvars, both, heap, backing, held>>

\* The in-memory ListProducts from repo.Count to the response.
HandleListProductsCount(p) ==
    /\ serving[p].handler = "ListProducts"
    /\ serving[p].step = "second"
    /\ resp' = Response("ListProducts", NoRequest, StatusOK, "", "none", FALSE)
    /\ serving' = [serving EXCEPT ![p] = NoServing]
    /\ UNCHANGED <<vars, cvars, both, heap, backing, held>>

\* The page size the persistent GetAllProducts passes to repo.List.
AllProductsPageSize == 100000

\* GetAllProducts: repo.List(ctx, 1, 100000) on the persistent handler,
\* repo.GetAll on the in-memory one.
HandleGetAllProducts(fail) ==
    /\ backend = "mem" => ~fail
    /\ \E r \in (IF backend = "mem" THEN { MemGetAll(products) }
                 ELSE IF fail THEN { Result("StorageError", <<>>, 0) }
                 ELSE DbList(table, GoInt(0, 1), AllProductsPageSize)) :
          resp' = IF r.res # "ok"
                  THEN Response("GetAllProducts", NoRequest, StatusInternalServerError,
                                "Failed to retrieve products", r.res, FALSE)
                  ELSE Response("GetAllProducts", NoRequest, StatusOK, "", "none", FALSE)
    /\ UNCHANGED <<vars, cvars, serving, both, heap, backing, held>>

\* GetProductCount (the in-memory handler only).
HandleGetProductCount ==
    /\ backend = "mem"
    /\ resp' = IF MemCount(products).res # "ok"
               THEN Response("GetProductCount", NoRequest, StatusInternalServerError,
                             "Failed to retrieve product count", "none", FALSE)
               ELSE Response("GetProductCount", NoRequest, StatusOK, "", "none", FALSE)
    /\ UNCHANGED <<vars, cvars, serving, both, heap, backing, held>>

\* The draws of the generated products of a bulk request.
HandlerDraws == { d \in Draws : d[1] = 1 /\ d[2] = 1 /\ d[3] = Price(0, 0) }

\* BulkGenerateProducts up to the first round trip of
\* repo.GenerateAndSaveBulkProducts (count: the count parameter, within
\* 1..10000). In memory the whole batch is appended under the lock. The
\* persistent CreateBulk begins a transaction here (BeginTxx); its inserts and
\* its Commit are later round trips, and other requests are served meanwhile.
HandleBulkGenerateProducts(p, count, ds, ts, fail) ==
    /\ serving[p].step = "none"
    /\ backend = "mem" => ~fail
    /\ Size + count <= MaxProducts
    /\ nextId + count - 1 <= MaxIds
    /\ nextId' = nextId + count
    /\ now' = ts[count][2]
    /\ LET batch == GeneratedBatch(count, ds, ts)
       IN  IF backend = "mem"
           THEN /\ products' = MemCreateBulk(products, batch)
                /\ serving' = [serving EXCEPT ![p] =
                                  [Serving("BulkGenerateProducts", 0, NoRequest, 0, 0)
                                      EXCEPT !.step = "second"]]
                /\ UNCHANGED <<tx, resp>>
           ELSE IF fail
           THEN /\ resp' = Response("BulkGenerateProducts", NoRequest,
                                    StatusInternalServerError,
                                    "Failed to generate products", "StorageError", FALSE)
                /\ UNCHANGED <<products, tx, serving>>
           ELSE /\ tx' = [active |-> TRUE, batch |-> batch, idx |-> 1,
                          uncommitted |-> {}, before |-> table]
                /\ serving' = [serving EXCEPT ![p] =
                                  Serving("BulkGenerateProducts", 0, NoRequest, 0, 0)]
                /\ UNCHANGED <<products, resp>>
    /\ UNCHANGED <<backend, table, last, expected, enum, cvars, both, heap, backing, held>>

\* One tx.NamedExecContext of the persistent CreateBulk: the row joins the
\* transaction's uncommitted rows; a failed insert rolls the transaction back
\* and the handler answers 500.
HandleBulkGenerateProductsInsert(p, fail) ==
    /\ serving[p].handler = "BulkGenerateProducts"
    /\ serving[p].step = "first"
    /\ tx.active
    /\ tx.idx <= Len(tx.batch)
    /\ LET r == IF fail
                THEN [res |-> "StorageError", committed |-> table,
                      uncommitted |-> tx.uncommitted]
                ELSE TxExec(table, tx.uncommitted, tx.batch[tx.idx])
       IN  IF r.res = "ok"
           THEN /\ table' = r.committed
                /\ tx' = [tx EXCEPT !.idx = tx.idx + 1, !.uncommitted = r.uncommitted]
                /\ UNCHANGED <<resp, serving>>
           ELSE /\ table' = TxRollback(r.committed, r.uncommitted)
                /\ tx' = NoTx
                /\ resp' = Response("BulkGenerateProducts", NoRequest,
                                    StatusInternalServerError,
                                    "Failed to generate products", r.res, FALSE)
                /\ serving' = [serving EXCEPT ![p] = NoServing]
    /\ UNCHANGED <<backend, products, now, nextId, last, expected, enum, cvars,
                   both, heap, backing, held>>

\* tx.Commit() of the persistent CreateBulk, after the last insert: the
\* batch becomes visible at once, or not at all when the commit fails.
HandleBulkGenerateProductsCommit(p, fail) ==
    /\ serving[p].handler = "BulkGenerateProducts"
    /\ serving[p].step = "first"
    /\ tx.active
    /\ tx.idx > Len(tx.batch)
    /\ tx' = NoTx
    /\ IF fail
       THEN /\ table' = TxRollback(table, tx.uncommitted)
            /\ resp' = Response("BulkGenerateProducts", NoRequest,
                                StatusInternalServerError,
                                "Failed to generate products", "StorageError", FALSE)
            /\ serving' = [serving EXCEPT ![p] = NoServing]
       ELSE /\ table' = TxCommit(table, tx.uncommitted)
            /\ serving' = [serving EXCEPT ![p].step = "second"]
            /\ UNCHANGED resp
    /\ UNCHANGED <<backend, products, now, nextId, last, expected, enum, cvars,
                   both, heap, backing, held>>

\* BulkGenerateProducts from repo.Count to the response: a failed Count is
\* logged and totalCount is 0, the response is 201 all the same.
HandleBulkGenerateProductsCount(p, fail) ==
    /\ serving[p].handler = "BulkGenerateProducts"
    /\ serving[p].step = "second"
    /\ backend = "mem" => ~fail
    /\ resp' = Response("BulkGenerateProducts", NoRequest, StatusCreated,
                        IF backend = "mem" THEN "Products generated successfully in memory"
                        ELSE "Products generated successfully",
                        IF fail THEN "StorageError" ELSE "none", FALSE)
    /\ serving' = [serving EXCEPT ![p] = NoServing]
    /\ UNCHANGED <<vars, cvars, both, heap, backing, held>>

NextHttp ==
    \/ Tick
    \/ \E bound \in BOOLEAN, req \in HandlerRequests, fail \in BOOLEAN :
          HandleCreateProduct(bound, req, fail)
    \/ \E idStr \in PathIds, fail \in BOOLEAN : HandleGetProduct(idStr, fail)
    \/ \E p \in HttpProcs, idStr \in PathIds, bound \in BOOLEAN, req \in HandlerRequests,
          failUpdate \in BOOLEAN : HandleUpdateProduct(p, idStr, bound, req, failUpdate)
    \/ \E p \in HttpProcs, failGet \in BOOLEAN : HandleUpdateProductGet(p, failGet)
    \/ \E idStr \in PathIds, fail \in BOOLEAN : HandleDeleteProduct(idStr, fail)
    \/ \E fail \in BOOLEAN : HandleDeleteAllProducts(fail)
    \/ \E p \in HttpProcs, pageQuery \in PageQueries, pageSizeQuery \in PageSizeQueries,
          fail \in BOOLEAN : HandleListProducts(p, pageQuery, pageSizeQuery, fail)
    \/ \E p \in HttpProcs : HandleListProductsCount(p)
    \/ \E fail \in BOOLEAN : HandleGetAllProducts(fail)
    \/ HandleGetProductCount
    \/ \E p \in HttpProcs, count \in 1..MaxBulk, fail \in BOOLEAN :
          \E ds \in [1..count -> HandlerDraws],
             ts \in (IF backend = "mem" THEN SingleReading(count) ELSE ClockReadings(count)) :
             HandleBulkGenerateProducts(p, count, ds, ts, fail)
    \/ \E p \in HttpProcs, fail \in BOOLEAN : HandleBulkGenerateProductsInsert(p, fail)
    \/ \E p \in HttpProcs, fail \in BOOLEAN : HandleBulkGenerateProductsCommit(p, fail)
    \/ \E p \in HttpProcs, fail \in BOOLEAN : HandleBulkGenerateProductsCount(p, fail)

SpecHttp == InitHttp /\ [][NextHttp]_allvars

\* ------------------------------------------------------------- goroutines
\* Concurrent callers of one ProductMemoryRepository. Each call runs
\*   idle -> wait -> (pending ->) cs -> done -> idle
\* wait: the method was entered; pending: a writer inside mutex.Lock() that
\* has shut out new readers and waits for the active ones to leave; cs: the
\* lock is held and the body runs, one statement per step; done: the
\* deferred Unlock/RUnlock ran and the call returned.

ReadOps == {"GetByID", "List", "GetAll", "Count"}
WriteOps == {"Create", "CreateBulk", "Update", "Delete", "DeleteAll"}

\* Delete taking the lock with RLock.
LockModeDeleteShared(op) == IF op \in WriteOps \ {"Delete"} THEN "write" ELSE "read"

\* Create taking the lock with RLock.
LockModeCreateShared(op) == IF op \in WriteOps \ {"Create"} THEN "write" ELSE "read"

\* The mode in which each method takes r.mutex.
LockMode(op) == IF op \in WriteOps THEN "write" ELSE "read"

Invocation(op, id, page, pageSize, req, batch) ==
    [op |-> op, id |-> id, page |-> page, pageSize |-> pageSize,
     req |-> req, batch |-> batch, i |-> 0, stmt |-> 0, acq |-> 0]

\* Payloads of the overlapping calls: products are created from one payload
\* and updated to another, so that every field assignment of Update is visible.
ConcRequests == { r \in Requests : r.name = "Widget" }
ConcUpdates == { r \in Requests : r.name = "Widget Pro" }
ConcDraws == { d \in Draws : d[1] = 1 /\ d[3] = Price(0, 0) }
ConcPages == { GoInt(0, 1), GoInt(0, 2) }

\* Products handed to Create/CreateBulk calls that have not yet appended.
InFlight ==
    LET Pending(p) == IF pc[p] \in {"wait", "pending", "cs"} THEN Len(call[p].batch) ELSE 0
        RECURSIVE Sum(_)
        Sum(S) == IF S = {} THEN 0
                  ELSE LET x == CHOOSE x \in S : TRUE IN Pending(x) + Sum(S \ {x})
    IN  Sum(Procs)

InitConc == Init /\ backend = "mem"

Enter(p, c) ==
    /\ pc[p] = "idle"
    /\ pc' = [pc EXCEPT ![p] = "wait"]
    /\ call' = [call EXCEPT ![p] = c]
    /\ UNCHANGED <<backend, products, table, now, last, tx, expected, enum,
                   ret, lin, abs, rw, xvars>>

\* A handler or caller enters a repository method. Create is entered with
\* req.ToProduct(), CreateBulk with a generated batch (both built before the
\* lock is asked for).
InvokeCreate(p, req) ==
    /\ Len(products) + InFlight < MaxProducts
    /\ nextId <= MaxIds
    /\ Enter(p, Invocation("Create", nextId, NoPage, 0, req, <<ToProduct(req, nextId, now)>>))
    /\ nextId' = nextId + 1

InvokeGenerate(p, d) ==
    /\ Len(products) + InFlight < MaxProducts
    /\ nextId <= MaxIds
    /\ Enter(p, Invocation("CreateBulk", 0, NoPage, 0, NoRequest,
                           GeneratedBatch(1, <<d>>, <<<<now, now>>>>)))
    /\ nextId' = nextId + 1

InvokeOther(p, c) ==
    /\ Enter(p, c)
    /\ UNCHANGED nextId

OtherInvocations ==
    { Invocation("GetByID", id, NoPage, 0, NoRequest, <<>>) : id \in 1..MaxProducts }
    \cup { Invocation("List", 0, pg, 1, NoRequest, <<>>) : pg \in ConcPages }
    \cup { Invocation("GetAll", 0, NoPage, 0, NoRequest, <<>>),
           Invocation("Count", 0, NoPage, 0, NoRequest, <<>>),
           Invocation("DeleteAll", 0, NoPage, 0, NoRequest, <<>>) }
    \cup { Invocation("Update", id, NoPage, 0, req, <<>>) :
             id \in 1..MaxProducts, req \in ConcUpdates }
    \cup { Invocation("Delete", id, NoPage, 0, NoRequest, <<>>) : id \in 1..MaxProducts }

\* mutex.Lock(), first half: one writer at a time gets past rw.w and shuts
\* out new readers.
LockBegin(p) ==
    /\ pc[p] = "wait"
    /\ LockMode(call[p].op) = "write"
    /\ rw.pending = NoProc /\ rw.writer = NoProc
    /\ rw' = [rw EXCEPT !.pending = p]
    /\ pc' = [pc EXCEPT ![p] = "pending"]
    /\ UNCHANGED <<vars, xvars, call, ret, lin, abs>>

\* mutex.Lock(), second half: the active readers have left.
LockAcquire(p) ==
    /\ pc[p] = "pending"
    /\ rw.readers = {}
    /\ rw' = [rw EXCEPT !.pending = NoProc, !.writer = p]
    /\ pc' = [pc EXCEPT ![p] = "cs"]
    /\ call' = [call EXCEPT ![p].stmt = 1, ![p].acq = call[p].acq + 1]
    /\ UNCHANGED <<vars, xvars, ret, lin, abs>>

\* mutex.RLock(): blocks while a writer holds the lock or is inside Lock.
RLockAcquire(p) ==
    /\ pc[p] = "wait"
    /\ LockMode(call[p].op) = "read"
    /\ rw.pending = NoProc /\ rw.writer = NoProc
    /\ rw' = [rw EXCEPT !.readers = rw.readers \cup {p}]
    /\ pc' = [pc EXCEPT ![p] = "cs"]
    /\ call' = [call EXCEPT ![p].stmt = 1, ![p].acq = call[p].acq + 1]
    /\ UNCHANGED <<vars, xvars, ret, lin, abs>>

\* A method returning without its deferred Unlock / RUnlock.
ReleasedNever(p) == rw

\* The deferred Unlock / RUnlock.
Released(p) ==
    [rw EXCEPT !.writer = IF rw.writer = p THEN NoProc ELSE rw.writer,
               !.readers = rw.readers \ {p}]

\* The call c run alone on the dataset a at time t: what it returns and
\* the dataset it leaves.
Sequential(a, c, t) ==
    CASE c.op = "Create" ->
            [ret |-> Result("ok", <<>>, 0), state |-> MemCreate(a, c.batch[1])]
      [] c.op = "CreateBulk" ->
            [ret |-> Result("ok", <<>>, 0), state |-> MemCreateBulk(a, c.batch)]
      [] c.op = "GetByID" -> [ret |-> MemGetByID(a, c.id), state |-> a]
      [] c.op = "List" -> [ret |-> MemList(a, c.page, c.pageSize), state |-> a]
      [] c.op = "GetAll" -> [ret |-> MemGetAll(a), state |-> a]
      [] c.op = "Count" -> [ret |-> MemCount(a), state |-> a]
      [] c.op = "Update" ->
            LET r == MemUpdate(a, c.id, c.req, t)
            IN  [ret |-> Result(r.res, <<>>, 0), state |-> r.products]
      [] c.op = "Delete" ->
            LET r == MemDelete(a, c.id)
            IN  [ret |-> Result(r.res, <<>>, 0), state |-> r.products]
      [] c.op = "DeleteAll" ->
            [ret |-> Result("ok", <<>>, 0), state |-> MemDeleteAll(a)]

\* The call's last statement ran: it returns r, leaving the slice ps, and
\* the deferred unlock runs.
Finish(p, r, ps) ==
    /\ products' = ps
    /\ ret' = [ret EXCEPT ![p] = r]
    /\ pc' = [pc EXCEPT ![p] = "done"]
    /\ rw' = Released(p)
    /\ lin' = [lin EXCEPT ![p] = Sequential(abs, call[p], now).ret]
    /\ abs' = Sequential(abs, call[p], now).state
    /\ UNCHANGED call

\* The call moves on to its next statement, leaving the slice ps.
Continue(p, ps, i) ==
    /\ products' = ps
    /\ call' = [call EXCEPT ![p].stmt = call[p].stmt + 1, ![p].i = i]
    /\ UNCHANGED <<pc, ret, rw, lin, abs>>

Ok == Result("ok", <<>>, 0)
NotFound == Result("NotFound", <<>>, 0)
Panic == Result("panic", <<>>, 0)

\* Update's body: the scan, then the four assignments.
UpdateStatement(p) ==
    LET c == call[p]
    IN  CASE c.stmt = 1 ->
               LET i == MemScan(products, c.id)
               IN  IF i = 0 THEN Finish(p, NotFound, products)
                   ELSE Continue(p, products, i)
          [] c.stmt > 1 /\ c.i > Len(products) -> Finish(p, Panic, products)
          [] c.stmt = 2 /\ c.i <= Len(products) ->
               Continue(p, [products EXCEPT ![c.i].name = c.req.name], c.i)
          [] c.stmt = 3 /\ c.i <= Len(products) ->
               Continue(p, [products EXCEPT ![c.i].description = c.req.description], c.i)
          [] c.stmt = 4 /\ c.i <= Len(products) ->
               Continue(p, [products EXCEPT ![c.i].price = c.req.price], c.i)
          [] c.stmt = 5 /\ c.i <= Len(products) ->
               Finish(p, Ok, [products EXCEPT ![c.i].updated_at = now])

\* Delete's body: the scan, the overwrite with the last element, the
\* truncation.
DeleteStatement(p) ==
    LET c == call[p]
    IN  CASE c.stmt = 1 ->
               LET i == MemScan(products, c.id)
               IN  IF i = 0 THEN Finish(p, NotFound, products)
                   ELSE Continue(p, products, i)
          [] c.stmt = 2 ->
               IF c.i > Len(products) THEN Finish(p, Panic, products)
               ELSE Continue(p, MemDeleteOverwrite(products, c.i), c.i)
          [] c.stmt = 3 ->
               IF Len(products) = 0 THEN Finish(p, Panic, products)
               ELSE Finish(p, Ok, MemDeleteTruncate(products))

\* One statement of the body of the call goroutine p is running.
Statement(p) ==
    /\ pc[p] = "cs"
    /\ LET c == call[p]
       IN  CASE c.op = "Create" -> Finish(p, Ok, MemCreate(products, c.batch[1]))
             [] c.op = "CreateBulk" -> Finish(p, Ok, MemCreateBulk(products, c.batch))
             [] c.op = "GetByID" -> Finish(p, MemGetByID(products, c.id), products)
             [] c.op = "List" -> Finish(p, MemList(products, c.page, c.pageSize), products)
             [] c.op = "GetAll" -> Finish(p, MemGetAll(products), products)
             [] c.op = "Count" -> Finish(p, MemCount(products), products)
             [] c.op = "Update" -> UpdateStatement(p)
             [] c.op = "Delete" -> DeleteStatement(p)
             [] c.op = "DeleteAll" -> Finish(p, Ok, MemDeleteAll(products))
    /\ UNCHANGED <<backend, table, now, nextId, last, tx, expected, enum, xvars>>

\* The caller takes the result; the goroutine is free for another call.
Return(p) ==
    /\ pc[p] = "done"
    /\ pc' = [pc EXCEPT ![p] = "idle"]
    /\ call' = [call EXCEPT ![p] = NoCall]
    /\ ret' = [ret EXCEPT ![p] = NoResult]
    /\ lin' = [lin EXCEPT ![p] = NoResult]
    /\ UNCHANGED <<vars, xvars, abs, rw>>

NextConc ==
    \/ \E p \in Procs, req \in ConcRequests : InvokeCreate(p, req)
    \/ \E p \in Procs, d \in ConcDraws : InvokeGenerate(p, d)
    \/ \E p \in Procs, c \in OtherInvocations : InvokeOther(p, c)
    \/ \E p \in Procs : LockBegin(p)
    \/ \E p \in Procs : LockAcquire(p)
    \/ \E p \in Procs : RLockAcquire(p)
    \/ \E p \in Procs : Statement(p)
    \/ \E p \in Procs : Return(p)

SpecConc == InitConc /\ [][NextConc]_allvars

\* Scheduling: a goroutine inside a method body keeps running; a writer that
\* has shut out new readers gets the lock once the active readers have
\* left; a goroutine blocked in Lock or RLock is not passed over for ever
\* (sync.Mutex hands over to a starving waiter, and Unlock wakes the readers
\* that queued behind the writer before the next writer can get in).
FairConc ==
    /\ SpecConc
    /\ \A p \in Procs :
          /\ WF_allvars(Statement(p))
          /\ WF_allvars(LockAcquire(p))
          /\ SF_allvars(LockBegin(p))
          /\ SF_allvars(RLockAcquire(p))

\* ------------------------------------------------------------- aliasing
\* The in-memory repository with its slice as Go keeps it: a header
\* (array, length, capacity) on a backing array in the heap. One caller; it
\* keeps the result of its last read and the argument of its last
\* Create/CreateBulk, and may write to either at any time.

ZeroProduct == Product(0, "", "", Price(0, 0), 0, 0)

Max(a, b) == IF a > b THEN a ELSE b

\* The elements a slice shows.
View(hp, sl) == [i \in 1..sl.len |-> hp[sl.arr][sl.off + i]]

\* The arrays something still points to.
Referenced(b, h) == {b.arr, h.result.arr, h.arg.arr} \ {0}

\* A new array: an address nothing points to (the lowest one).
Alloc(used) == CHOOSE a \in Addrs \ used : \A x \in Addrs \ used : a <= x

\* Arrays nothing points to any more are gone.
Collect(hp, used) == [a \in Addrs |-> IF a \in used THEN hp[a] ELSE <<>>]

\* A new array holding copies of elems (make + copy; `productCopy := product`;
\* a local whose address is taken).
MakeCopy(hp, used, elems) ==
    IF Len(elems) = 0 THEN [heap |-> hp, slice |-> NoSlice]
    ELSE LET a == Alloc(used)
         IN  [heap |-> [hp EXCEPT ![a] = elems],
              slice |-> Slice(a, 0, Len(elems), Len(elems))]

\* A read handing out r.products[start:end] itself, a window on the backing
\* array.
SliceOut(hp, used, sl, start, end) ==
    [heap |-> hp, slice |-> Slice(sl.arr, sl.off + start, end - start, sl.cap - start)]

\* What the reads hand out: elements start+1 .. end of the slice, copied
\* into a new array.
CopyOut(hp, used, sl, start, end) ==
    MakeCopy(hp, used, SubSeq(View(hp, sl), start + 1, end))

\* append(sl, elems...): in place when the capacity allows, else into a new
\* array of at least twice the capacity.
HeapAppend(hp, used, sl, elems) ==
    LET need == sl.len + Len(elems)
    IN  IF need <= sl.cap
        THEN [heap |-> [hp EXCEPT ![sl.arr] =
                          [j \in 1..Len(@) |->
                              IF j > sl.off + sl.len /\ j <= sl.off + need
                              THEN elems[j - sl.off - sl.len] ELSE @[j]]],
              slice |-> [sl EXCEPT !.len = need]]
        ELSE LET a == Alloc(used)
                 newcap == Max(need, 2 * sl.cap)
             IN  [heap |-> [hp EXCEPT ![a] = View(hp, sl) \o elems
                                             \o [j \in 1..(newcap - need) |-> ZeroProduct]],
                  slice |-> Slice(a, 0, need, newcap)]

\* startIndex and endIndex of List over n stored products.
MemListRange(n, page, pageSize) ==
    LET startIndex == IntMulSmall(IntPred(page), pageSize)
        endIndex == IntAddSmall(startIndex, pageSize)
    IN  IF IntGeSmall(startIndex, n) THEN [kind |-> "empty", start |-> 0, end |-> 0]
        ELSE IF IntIsNegative(startIndex) THEN [kind |-> "panic", start |-> 0, end |-> 0]
        ELSE [kind |-> "range", start |-> startIndex.lo,
              end |-> IF IntGtSmall(endIndex, n) THEN n ELSE endIndex.lo]

InitAlias == Init /\ backend = "mem"

\* The caller takes a new result / passes a new argument, letting go of the
\* one it had.
Returned(hp, sl) == [held EXCEPT !.result = sl, !.snap = View(hp, sl)]
Passed(sl) == [held EXCEPT !.arg = sl]

\* product := req.ToProduct(); repo.Create(ctx, &product)
AliasCreate(req) ==
    /\ Len(products) < MaxProducts
    /\ nextId <= MaxIds
    /\ LET p == ToProduct(req, nextId, now)
           keep == {backing.arr, held.result.arr} \ {0}
           a == MakeCopy(heap, keep, <<p>>)
           ap == HeapAppend(a.heap, keep \cup {a.slice.arr}, backing, View(a.heap, a.slice))
       IN  /\ backing' = ap.slice
           /\ held' = Passed(a.slice)
           /\ heap' = Collect(ap.heap, Referenced(ap.slice, Passed(a.slice)))
           /\ products' = MemCreate(products, p)
    /\ nextId' = nextId + 1
    /\ UNCHANGED <<backend, table, now, last, tx, expected, enum, cvars, serving, both, resp>>

\* products := make([]models.Product, count) ...; r.CreateBulk(ctx, products)
AliasCreateBulk(count, ds) ==
    /\ Len(products) + count <= MaxProducts
    /\ nextId + count - 1 <= MaxIds
    /\ LET batch == GeneratedBatch(count, ds, [i \in 1..count |-> <<now, now>>])
           keep == {backing.arr, held.result.arr} \ {0}
           a == MakeCopy(heap, keep, batch)
           ap == HeapAppend(a.heap, keep \cup {a.slice.arr}, backing, View(a.heap, a.slice))
       IN  /\ backing' = ap.slice
           /\ held' = Passed(a.slice)
           /\ heap' = Collect(ap.heap, Referenced(ap.slice, Passed(a.slice)))
           /\ products' = MemCreateBulk(products, batch)
    /\ nextId' = nextId + count
    /\ UNCHANGED <<backend, table, now, last, tx, expected, enum, cvars, serving, both, resp>>

AliasGetByID(id) ==
    /\ LET i == MemScan(View(heap, backing), id)
           keep == {backing.arr, held.arg.arr} \ {0}
           c == IF i = 0 THEN [heap |-> heap, slice |-> NoSlice]
                ELSE CopyOut(heap, keep, backing, i - 1, i)
       IN  /\ held' = Returned(c.heap, c.slice)
           /\ heap' = Collect(c.heap, Referenced(backing, Returned(c.heap, c.slice)))
    /\ UNCHANGED <<vars, cvars, serving, both, resp, backing>>

AliasList(page, pageSize) ==
    /\ LET rg == MemListRange(backing.len, page, pageSize)
           keep == {backing.arr, held.arg.arr} \ {0}
           c == IF rg.kind = "range" THEN CopyOut(heap, keep, backing, rg.start, rg.end)
                ELSE [heap |-> heap, slice |-> NoSlice]
       IN  /\ held' = Returned(c.heap, c.slice)
           /\ heap' = Collect(c.heap, Referenced(backing, Returned(c.heap, c.slice)))
    /\ UNCHANGED <<vars, cvars, serving, both, resp, backing>>

AliasGetAll ==
    /\ LET keep == {backing.arr, held.arg.arr} \ {0}
           c == CopyOut(heap, keep, backing, 0, backing.len)
       IN  /\ held' = Returned(c.heap, c.slice)
           /\ heap' = Collect(c.heap, Referenced(backing, Returned(c.heap, c.slice)))
    /\ UNCHANGED <<vars, cvars, serving, both, resp, backing>>

\* Update writes the four fields of r.products[i] in place.
AliasUpdate(id, req) ==
    /\ LET i == MemScan(View(heap, backing), id)
       IN  heap' = IF i = 0 THEN heap
                   ELSE [heap EXCEPT ![backing.arr][i].name = req.name,
                                     ![backing.arr][i].description = req.description,
                                     ![backing.arr][i].price = req.price,
                                     ![backing.arr][i].updated_at = now]
    /\ products' = MemUpdate(products, id, req, now).products
    /\ UNCHANGED <<backend, table, now, nextId, last, tx, expected, enum, cvars, serving,
                   both, resp, backing, held>>

\* Delete overwrites r.products[i] in place and shortens the slice; the
\* array and its capacity stay.
AliasDelete(id) ==
    /\ LET i == MemScan(View(heap, backing), id)
       IN  /\ heap' = IF i = 0 THEN heap
                      ELSE [heap EXCEPT ![backing.arr][i] = heap[backing.arr][backing.len]]
           /\ backing' = IF i = 0 THEN backing ELSE [backing EXCEPT !.len = backing.len - 1]
    /\ products' = MemDelete(products, id).products
    /\ UNCHANGED <<backend, table, now, nextId, last, tx, expected, enum, cvars, serving,
                   both, resp, held>>

\* r.products = make([]models.Product, 0)
AliasDeleteAll ==
    /\ backing' = NoSlice
    /\ heap' = Collect(heap, Referenced(NoSlice, held))
    /\ products' = MemDeleteAll(products)
    /\ UNCHANGED <<backend, table, now, nextId, last, tx, expected, enum, cvars, serving,
                   both, resp, held>>

\* The caller changes an element of the result it holds.
CallerWritesResult(i) ==
    /\ i \in 1..held.result.len
    /\ heap' = [heap EXCEPT ![held.result.arr][held.result.off + i].name = "scribbled"]
    /\ held' = [held EXCEPT !.snap[i].name = "scribbled"]
    /\ UNCHANGED <<vars, cvars, serving, both, resp, backing>>

\* The caller changes an element of the product or slice it passed.
CallerWritesArgument(i) ==
    /\ i \in 1..held.arg.len
    /\ heap' = [heap EXCEPT ![held.arg.arr][held.arg.off + i].name = "scribbled"]
    /\ UNCHANGED <<vars, cvars, serving, both, resp, backing, held>>

NextAlias ==
    \/ \E req \in ConcRequests : AliasCreate(req)
    \/ \E count \in 1..MaxBulk : \E ds \in [1..count -> ConcDraws] : AliasCreateBulk(count, ds)
    \/ \E id \in Ids : AliasGetByID(id)
    \/ \E page \in ConcPages, pageSize \in PageSizes : AliasList(page, pageSize)
    \/ AliasGetAll
    \/ \E id \in Ids, req \in ConcUpdates : AliasUpdate(id, req)
    \/ \E id \in Ids : AliasDelete(id)
    \/ AliasDeleteAll
    \/ \E i \in 1..MaxProducts : CallerWritesResult(i)
    \/ \E i \in 1..MaxBulk : CallerWritesArgument(i)

SpecAlias == InitAlias /\ [][NextAlias]_allvars

\* ------------------------------------------------------------- serving
\* ProductMemoryHandler under the HTTP server: one goroutine per request,
\* each running its handler, whose repository calls take and release the
\* mutex one after the other (the lock and the method bodies are those of
\* the goroutines section). The requests are those that got past parsing
\* and validation; the others are answered without a repository call.

\* Update payloads of the overlapping requests: two that differ.
ServeUpdates == ConcRequests \cup ConcUpdates

InitServe == Init /\ backend = "mem"

\* A goroutine takes a request and enters the handler's first repository
\* call.
Accept(p, s, c) ==
    /\ pc[p] = "idle"
    /\ pc' = [pc EXCEPT ![p] = "wait"]
    /\ call' = [call EXCEPT ![p] = c]
    /\ serving' = [serving EXCEPT ![p] = s]
    /\ UNCHANGED <<backend, products, table, now, last, tx, expected, enum,
                   ret, lin, abs, rw, both, resp, heap, backing, held>>

ServeCreateProduct(p, req) ==
    /\ Len(products) + InFlight < MaxProducts
    /\ nextId <= MaxIds
    /\ Accept(p, Serving("CreateProduct", nextId, req, 0, 0),
              Invocation("Create", nextId, NoPage, 0, req, <<ToProduct(req, nextId, now)>>))
    /\ nextId' = nextId + 1

ServeBulkGenerateProducts(p, d) ==
    /\ Len(products) + InFlight < MaxProducts
    /\ nextId <= MaxIds
    /\ Accept(p, Serving("BulkGenerateProducts", 0, NoRequest, 0, 0),
              Invocation("CreateBulk", 0, NoPage, 0, NoRequest,
                         GeneratedBatch(1, <<d>>, <<<<now, now>>>>)))
    /\ nextId' = nextId + 1

ServeUpdateProduct(p, id, req) ==
    /\ Accept(p, Serving("UpdateProduct", id, req, 0, 0),
              Invocation("Update", id, NoPage, 0, req, <<>>))
    /\ UNCHANGED nextId

ServeDeleteProduct(p, id) ==
    /\ Accept(p, Serving("DeleteProduct", id, NoRequest, 0, 0),
              Invocation("Delete", id, NoPage, 0, NoRequest, <<>>))
    /\ UNCHANGED nextId

ServeDeleteAllProducts(p) ==
    /\ Accept(p, Serving("DeleteAllProducts", 0, NoRequest, 0, 0),
              Invocation("DeleteAll", 0, NoPage, 0, NoRequest, <<>>))
    /\ UNCHANGED nextId

ServeListProducts(p, pageQuery, pageSizeQuery) ==
    LET page == PageParam(pageQuery)
        pageSize == PageSizeParam(pageSizeQuery)
    IN  /\ Accept(p, Serving("ListProducts", 0, NoRequest, page, pageSize),
                  Invocation("List", 0, GoInt(0, page), pageSize, NoRequest, <<>>))
        /\ UNCHANGED nextId

\* The handler's repository call returned and the handler goes on to its
\* second call, keeping what the first returned.
SecondCall(p, c) ==
    /\ pc' = [pc EXCEPT ![p] = "wait"]
    /\ call' = [call EXCEPT ![p] = c]
    /\ ret' = [ret EXCEPT ![p] = NoResult]
    /\ lin' = [lin EXCEPT ![p] = NoResult]
    /\ serving' = [serving EXCEPT ![p].step = "second", ![p].first = ret[p]]

\* return c.JSON(status, ...): the handler ends and the goroutine is free.
Respond(p, status, body, totalCount) ==
    /\ pc' = [pc EXCEPT ![p] = "idle"]
    /\ call' = [call EXCEPT ![p] = NoCall]
    /\ ret' = [ret EXCEPT ![p] = NoResult]
    /\ lin' = [lin EXCEPT ![p] = NoResult]
    /\ serving' = [serving EXCEPT ![p].step = "responded", ![p].status = status,
                                  ![p].body = body, ![p].totalCount = totalCount]

\* The handler of goroutine p from the return of a repository call to its
\* next call or to its response.
ServeStep(p) ==
    /\ pc[p] = "done"
    /\ LET s == serving[p]
           r == ret[p]
       IN  CASE s.handler = "CreateProduct" ->
                  Respond(p, StatusCreated, call[p].batch, 0)
             [] s.handler = "UpdateProduct" /\ s.step = "first" ->
                  IF r.res # "ok" THEN Respond(p, StatusInternalServerError, <<>>, 0)
                  ELSE SecondCall(p, Invocation("GetByID", s.id, NoPage, 0, NoRequest, <<>>))
             [] s.handler = "UpdateProduct" /\ s.step = "second" ->
                  IF r.res # "ok" THEN Respond(p, StatusInternalServerError, <<>>, 0)
                  ELSE Respond(p, StatusOK, r.out, 0)
             [] s.handler \in {"DeleteProduct", "DeleteAllProducts"} ->
                  IF r.res # "ok" THEN Respond(p, StatusInternalServerError, <<>>, 0)
                  ELSE Respond(p, StatusOK, <<>>, 0)
             [] s.handler = "ListProducts" /\ s.step = "first" ->
                  IF r.res # "ok" THEN Respond(p, StatusInternalServerError, <<>>, 0)
                  ELSE SecondCall(p, Invocation("Count", 0, NoPage, 0, NoRequest, <<>>))
             [] s.handler = "ListProducts" /\ s.step = "second" ->
                  Respond(p, StatusOK, s.first.out, IF r.res = "ok" THEN r.n ELSE 0)
             [] s.handler = "BulkGenerateProducts" /\ s.step = "first" ->
                  IF r.res # "ok" THEN Respond(p, StatusInternalServerError, <<>>, 0)
                  ELSE SecondCall(p, Invocation("Count", 0, NoPage, 0, NoRequest, <<>>))
             [] s.handler = "BulkGenerateProducts" /\ s.step = "second" ->
                  Respond(p, StatusCreated, <<>>, IF r.res = "ok" THEN r.n ELSE 0)
    /\ UNCHANGED <<vars, abs, rw, both, resp, heap, backing, held>>

NextServe ==
    \/ \E p \in Procs, req \in ConcRequests : ServeCreateProduct(p, req)
    \/ \E p \in Procs, d \in ConcDraws : ServeBulkGenerateProducts(p, d)
    \/ \E p \in Procs, id \in 1..MaxProducts, req \in ServeUpdates :
          ServeUpdateProduct(p, id, req)
    \/ \E p \in Procs, id \in 1..MaxProducts : ServeDeleteProduct(p, id)
    \/ \E p \in Procs : ServeDeleteAllProducts(p)
    \/ \E p \in Procs, pageQuery \in PageQueries, pageSizeQuery \in PageSizeQueries :
          ServeListProducts(p, pageQuery, pageSizeQuery)
    \/ \E p \in Procs : LockBegin(p)
    \/ \E p \in Procs : LockAcquire(p)
    \/ \E p \in Procs : RLockAcquire(p)
    \/ \E p \in Procs : Statement(p)
    \/ \E p \in Procs : ServeStep(p)

SpecServe == InitServe /\ [][NextServe]_allvars

\* ------------------------------------------------------------- the slice
\* The in-memory repository alone, one call at a time, with a collection
\* long enough for pages and removals in the middle of it.
MaxListed == 5
ListedIds == 1..MaxListed

\* page and pageSize as ListProducts passes them on: page >= 1,
\* pageSize in 1..100.
SlicePages == { GoInt(0, k) : k \in 1..(MaxListed + 1) } \cup { GoInt(4, 1) }
SlicePageSizes == { 1, 2, 10, 100 }

InitSlice == Init /\ backend = "mem"

\* CreateProduct on the longer collection.
SliceCreate(req) ==
    /\ Idle
    /\ Size < MaxListed
    /\ nextId <= MaxListed
    /\ CreateCall(ToProduct(req, nextId, now), req, FALSE)
    /\ nextId' = nextId + 1
    /\ UNCHANGED <<backend, now, tx, enum, cvars, xvars>>

NextSlice ==
    \/ \E req \in ConcRequests : SliceCreate(req)
    \/ \E p \in Stored : CreateAgain(p, FALSE)
    \/ \E page \in SlicePages, pageSize \in SlicePageSizes : List(page, pageSize, FALSE)
    \/ \E id \in ListedIds : Delete(id, FALSE)

SpecSlice == InitSlice /\ [][NextSlice]_allvars

\* ------------------------------------------------------------- paging
\* A client paging through the in-memory collection while another client
\* deletes products between its page reads.
PagingSizes == { 1, 2 }

InitPaging == Init /\ backend = "mem"

\* repo.Delete called between two page reads of the enumeration.
DeleteBetweenPages(id) ==
    /\ backend = "mem"
    /\ enum.phase = "paging"
    /\ LET r == MemDelete(products, id)
       IN  /\ products' = r.products
           /\ expected' = IF r.res = "ok" THEN expected - 1 ELSE expected
           /\ last' = Call("Delete", id, NoPage, 0, NoRequest, Result(r.res, <<>>, 0))
    /\ UNCHANGED <<backend, table, now, nextId, tx, enum, cvars, xvars>>

NextPaging ==
    \/ \E req \in ConcRequests : SliceCreate(req)
    \/ \E id \in ListedIds : Delete(id, FALSE)
    \/ \E pageSize \in PagingSizes : EnumStart(pageSize)
    \/ EnumPage
    \/ EnumEnd
    \/ \E id \in ListedIds : DeleteBetweenPages(id)

SpecPaging == InitPaging /\ [][NextPaging]_allvars

\* ------------------------------------------------------------- properties
\* GetByID on the backend in use, with the store reachable.
GetByIDNow(id) ==
    IF backend = "mem" THEN MemGetByID(products, id) ELSE DbGetByID(table, id)

\* (page-1)*pageSize as a number is at least n (a small natural).
OffsetAtLeast(page, pageSize, n) ==
    page.hi > 0 \/ (page.lo - 1) * pageSize >= n

\* C1: after Create(ToProduct(p)) succeeded, GetByID(assigned id) returns a
\* product with p's name, description and price, the assigned id, and
\* created_at = updated_at.
CreateThenGetReturnsPayload ==
    (last.op = "Create" /\ last.req \in Requests /\ last.res = "ok") =>
        LET g == GetByIDNow(last.id)
        IN  /\ g.res = "ok"
            /\ g.out[1].id = last.id
            /\ g.out[1].name = last.req.name
            /\ g.out[1].description = last.req.description
            /\ g.out[1].price = last.req.price
            /\ g.out[1].created_at = g.out[1].updated_at

\* C2: right after a successful Delete(id), GetByID(id) fails with
\* not-found.
DeleteThenGetNotFound ==
    (last.op = "Delete" /\ last.res = "ok") => GetByIDNow(last.id).res = "NotFound"

\* C3: no two stored products share an id.
UniqueIds ==
    /\ \A i, j \in 1..Len(products) : i # j => products[i].id # products[j].id
    /\ \A r1, r2 \in table : r1.id = r2.id => r1 = r2

\* C4: when the persistent CreateBulk returns, the table is the table from
\* before the call if an insert failed, the table from before plus the
\* whole batch if the call succeeded, and never anything in between.
BulkAllOrNothing ==
    [][ (tx.active /\ ~tx'.active) =>
          LET batchRows == { StoredRow(tx.batch[i]) : i \in 1..Len(tx.batch) }
          IN  /\ last'.res = "ok" =>
                    /\ table' = tx.before \cup batchRows
                    /\ \A i \in 1..Len(tx.batch) :
                          DbGetByID(table', tx.batch[i].id).res = "ok"
              /\ (last'.res # "ok" /\ last'.n <= Len(tx.batch)) =>
                    /\ table' = tx.before
                    /\ DbCount(table').n = DbCount(tx.before).n
              /\ table' \in {tx.before, tx.before \cup batchRows}
      ]_allvars

\* C4 witness: a batch failed at its second insert or later, after an
\* earlier insert of the same batch had gone through.
BulkFailedMidBatch ==
    /\ backend = "db"
    /\ last.op = "CreateBulk"
    /\ last.res = "StorageError"
    /\ last.n >= 2
    /\ last.n <= Len(last.out)

\* C7: the pages List(1,ps), List(2,ps), ... read to the first empty page
\* hold every stored row exactly once, in descending created_at order.
EnumerationExactlyOnce ==
    (backend = "db" /\ enum.phase = "done") =>
        /\ Len(enum.acc) = Cardinality(table)
        /\ \A r \in table : \E i \in 1..Len(enum.acc) : enum.acc[i] = r
        /\ \A i \in 1..(Len(enum.acc) - 1) :
              enum.acc[i].created_at >= enum.acc[i + 1].created_at

\* The last call was a persistent List that failed although the OFFSET it
\* sent was not negative: the store was unreachable.
ListFoundStoreUnreachable ==
    /\ backend = "db" /\ last.op = "List" /\ last.res = "StorageError"
    /\ ~IntIsNegative(IntMulSmall(IntPred(last.page), last.pageSize))

\* C8: a List whose (page-1)*pageSize is at least the number of stored
\* products returns an empty sequence and no error (the store being
\* reachable).
OutOfRangePageEmpty ==
    (last.op = "List" /\ OffsetAtLeast(last.page, last.pageSize, Size)
        /\ ~ListFoundStoreUnreachable) =>
        (last.res = "ok" /\ last.out = <<>>)

\* C9: in memory, Count returns the number of products added since the
\* last DeleteAll minus the number of successful Deletes since then.
CountMatchesHistory ==
    (backend = "mem" /\ last.op = "Count") => (last.res = "ok" /\ last.n = expected)

\* C9 witness: Count returned a positive number after more products had
\* been created than remain.
CountAfterRemoval ==
    /\ backend = "mem"
    /\ last.op = "Count"
    /\ last.n >= 1
    /\ nextId - 1 > last.n

\* C10: a successful Update sets the matching product's name, description
\* and price to the request's and updated_at to the clock reading, and
\* changes nothing else.
UpdateFrame ==
    [][ (last'.op = "Update" /\ last'.res = "ok" /\ now' = now) =>
          IF backend = "mem"
          THEN LET i == MemScan(products, last'.id)
               IN  /\ i > 0
                   /\ Len(products') = Len(products)
                   /\ products'[i] = [products[i] EXCEPT !.name = last'.req.name,
                                                         !.description = last'.req.description,
                                                         !.price = last'.req.price,
                                                         !.updated_at = now]
                   /\ \A j \in 1..Len(products) : j # i => products'[j] = products[j]
          ELSE /\ Cardinality(table') = Cardinality(table)
               /\ \A r \in table :
                     IF r.id = last'.id
                     THEN [r EXCEPT !.name = last'.req.name,
                                    !.description = last'.req.description,
                                    !.price = last'.req.price,
                                    !.updated_at = now] \in table'
                     ELSE r \in table'
      ]_allvars

\* C5: every call returns what it returns when the calls run one at a
\* time in the order of their last statements, and whenever no call is
\* inside its body the slice is the dataset those sequential runs leave.
Linearizable ==
    /\ \A p \in Procs : pc[p] = "done" => ret[p] = lin[p]
    /\ (\A p \in Procs : pc[p] # "cs") => products = abs

\* C5 witness: a successful Delete and a read ran concurrently (both were
\* entered before either returned) and both have returned.
DeleteOverlappedRead ==
    \E p, q \in Procs :
        /\ p # q
        /\ pc[p] = "done" /\ call[p].op = "Delete" /\ ret[p].res = "ok"
        /\ pc[q] = "done" /\ call[q].op \in {"GetAll", "List", "GetByID"}
        /\ ret[q].out # <<>>

\* C6: while a write is inside its critical section no other call is
\* inside its own.
WritersExclude ==
    \A p \in Procs :
        (pc[p] = "cs" /\ call[p].op \in WriteOps) =>
            \A q \in Procs \ {p} : pc[q] # "cs"

\* C6 witness: two reads are inside their critical sections at once.
ReadersOverlap ==
    \E p, q \in Procs :
        /\ p # q
        /\ pc[p] = "cs" /\ call[p].op \in ReadOps
        /\ pc[q] = "cs" /\ call[q].op \in ReadOps

\* C11: every stored product has created_at <= updated_at (the products
\* come from ToProduct or GenerateAndSaveBulkProducts, are changed only by
\* Update, and the clock never goes back).
CreatedBeforeUpdated ==
    \A p \in Stored : p.created_at <= p.updated_at

\* C11 witness: an Update succeeded at a later clock reading than the
\* product's creation.
UpdatedLater ==
    /\ last.op = "Update"
    /\ last.res = "ok"
    /\ \E p \in Stored : p.id = last.id /\ p.created_at < p.updated_at

\* C12: after a successful Update of a created product, GetByID returns the
\* request's name, description and price, and updated_at > created_at.
UpdateThenGetStrictlyLater ==
    (last.op = "Update" /\ last.res = "ok" /\ last.id \in StoredIds) =>
        LET g == GetByIDNow(last.id)
        IN  /\ g.res = "ok"
            /\ g.out[1].name = last.req.name
            /\ g.out[1].description = last.req.description
            /\ g.out[1].price = last.req.price
            /\ g.out[1].updated_at > g.out[1].created_at

\* C13: in memory, an Update whose id matches no stored product returns
\* not-found and leaves the slice as it was, contents and order.
UpdateMissingIsNotFound ==
    [][ (backend = "mem" /\ last'.op = "Update" /\ last' # last
            /\ MemScan(products, last'.id) = 0) =>
          (last'.res = "NotFound" /\ products' = products)
      ]_allvars

\* C13 witness: an Update of an id that is not stored returned not-found
\* while other products were stored.
UpdateMissedAmongOthers ==
    /\ backend = "mem"
    /\ last.op = "Update"
    /\ last.res = "NotFound"
    /\ Len(products) >= 1

\* C14: with the store reachable, a Delete whose id matches no stored
\* product returns not-found and leaves the dataset as it was; a Delete
\* whose id matches returns success.
DeleteOutcome ==
    [][ (last'.op = "Delete" /\ last' # last /\ last'.res # "StorageError") =>
          IF last'.id \in StoredIds
          THEN last'.res = "ok"
          ELSE /\ last'.res = "NotFound"
               /\ products' = products
               /\ table' = table
      ]_allvars

\* C14 witness: the persistent Delete reported not-found on a non-empty
\* table.
DeleteMissedRow ==
    /\ backend = "db"
    /\ last.op = "Delete"
    /\ last.res = "NotFound"
    /\ table # {}

\* C15: right after a successful DeleteAll, Count is 0, GetAll and every
\* List return an empty sequence, and GetByID is not-found for every id.
DeleteAllEmpties ==
    (last.op = "DeleteAll" /\ last.res = "ok") =>
        /\ (IF backend = "mem" THEN MemCount(products) ELSE DbCount(table)).n = 0
        /\ \A r \in (IF backend = "mem" THEN { MemGetAll(products) } ELSE DbGetAll(table)) :
              r.res = "ok" /\ r.out = <<>>
        /\ \A page \in Pages, pageSize \in PageSizes :
              \A r \in (IF backend = "mem" THEN { MemList(products, page, pageSize) }
                        ELSE DbList(table, page, pageSize)) :
                 r.res = "ok" /\ r.out = <<>>
        /\ \A id \in Ids : GetByIDNow(id).res = "NotFound"

\* C17: every call applied to both backends returns the same outcome and
\* the same product data on both.
BackendsAgree ==
    both.mem = both.db

\* C19: a GetProduct, UpdateProduct or DeleteProduct request that reaches a
\* reachable store with an id no product has is answered 404 Not Found.
MissingIdIsNotFound ==
    (resp.handler \in {"GetProduct", "UpdateProduct", "DeleteProduct"}
        /\ resp.missing /\ resp.cause # "StorageError") =>
        resp.status = StatusNotFound

\* C20: a handler whose repository call failed with a storage failure
\* answers 500 Internal Server Error with one of the fixed messages.
StorageFailureIsInternalError ==
    resp.cause = "StorageError" =>
        /\ resp.status = StatusInternalServerError
        /\ resp.message \in { "Failed to create product", "Failed to update product",
                              "Failed to retrieve updated product",
                              "Failed to delete product", "Failed to delete all products",
                              "Failed to retrieve products", "Failed to generate products",
                              "Failed to retrieve product count" }

\* What goroutine p holds of the mutex.
Holds(p) == rw.writer = p \/ p \in rw.readers \/ rw.pending = p

\* Some goroutine inside a repository method can take its next step.
SomeCallCanStep ==
    \E p \in Procs :
        \/ ENABLED LockBegin(p)
        \/ ENABLED LockAcquire(p)
        \/ ENABLED RLockAcquire(p)
        \/ ENABLED Statement(p)

\* C18: no state is reached in which the calls in progress are all stuck;
\* a call asks for the lock only when it holds nothing, holds it exactly
\* once while its body runs, and holds nothing once it has returned (on a
\* not-found return too); and under fair scheduling every call that was
\* invoked returns.
EveryCallReturns ==
    /\ []((\E p \in Procs : pc[p] \in {"wait", "pending", "cs"}) => SomeCallCanStep)
    /\ [](\A p \in Procs :
            /\ pc[p] \in {"idle", "wait", "done"} => ~Holds(p)
            /\ pc[p] = "wait" => call[p].acq = 0
            /\ pc[p] = "cs" => (call[p].acq = 1
                                /\ IF LockMode(call[p].op) = "write"
                                   THEN rw.writer = p /\ rw.readers = {}
                                   ELSE p \in rw.readers /\ rw.writer = NoProc)
            /\ pc[p] = "done" => call[p].acq = 1)
    /\ \A p \in Procs : (pc[p] = "wait") ~> (pc[p] = "done")

\* C18 witness: an Update or Delete that found no match has returned and
\* the other goroutine is inside its body, holding the lock.
NotFoundReturnFreedWaiter ==
    \E p, q \in Procs :
        /\ p # q
        /\ pc[p] = "done" /\ call[p].op \in {"Update", "Delete"}
        /\ ret[p].res = "NotFound"
        /\ pc[q] = "cs"

\* C16: what an in-memory read returned stays as it was returned whatever
\* the repository does afterwards (only the caller's own writes change it),
\* and the stored dataset is what the repository's operations made it
\* whatever the caller writes to a result or to an argument it passed.
SnapshotsIsolated ==
    /\ View(heap, held.result) = held.snap
    /\ View(heap, backing) = products

\* C16 witness: the caller holds a product in a result that now differs from
\* the stored product with the same id (the store or the caller changed one
\* of them after the read).
ResultDiffersFromStore ==
    /\ backend = "mem"
    /\ \E i \in 1..Len(held.snap), j \in 1..Len(products) :
          /\ held.snap[i].id = products[j].id
          /\ held.snap[i] # products[j]

\* C21: a creation or update payload that reached validation passes it when
\* its name has 3 to 255 characters and its price is at least 0 (0 included),
\* and is otherwise rejected with no product stored or modified.
PriceRejectedOnlyBelowZero ==
    [][(/\ resp' # resp
        /\ resp'.handler \in {"CreateProduct", "UpdateProduct"}
        /\ resp'.status # StatusBadRequest) =>
          LET req == resp'.req
              accepted == /\ Len(req.name) >= 3
                          /\ Len(req.name) <= 255
                          /\ req.price.whole >= 0
          IN  IF accepted
              THEN resp'.status # StatusUnprocessableEntity
              ELSE /\ resp'.status = StatusUnprocessableEntity
                   /\ products' = products
                   /\ table' = table]_allvars

\* (page-1)*pageSize as a number, for a page below 2^60.
Offset(page, pageSize) == (page.lo - 1) * pageSize

\* C22: in memory, a List whose (page-1)*pageSize is below the number of
\* stored products returns no error and the products at the indices from
\* that offset up to offset+pageSize, or up to the end of the collection if
\* that comes first, in collection order.
ListReturnsRange ==
    (backend = "mem" /\ last.op = "List"
        /\ ~OffsetAtLeast(last.page, last.pageSize, Size)) =>
        LET start == Offset(last.page, last.pageSize)
        IN  /\ last.res = "ok"
            /\ Len(last.out) = Min(start + last.pageSize, Size) - start
            /\ \A k \in 1..Len(last.out) : last.out[k] = products[start + k]

\* C22 witness: List(1, 10) on five stored products returned the five.
ListClampedToEnd ==
    /\ backend = "mem" /\ last.op = "List" /\ last.res = "ok"
    /\ last.page = GoInt(0, 1) /\ last.pageSize = 10
    /\ Size = 5 /\ last.out = products

\* The number of elements of ps equal to p.
Occurrences(ps, p) == Cardinality({ i \in 1..Len(ps) : ps[i] = p })

\* C23: in memory, a Delete of an id that is stored succeeds and removes
\* one element, the first in collection order with that id: the collection
\* is one shorter, the element that was last takes the removed element's
\* index, every other element keeps its index, and the elements are those
\* of before minus the removed one.
DeleteSwapsWithLast ==
    [][\A id \in ListedIds :
          (backend = "mem" /\ Delete(id, FALSE)
              /\ \E i \in 1..Len(products) : products[i].id = id) =>
              LET n == Len(products)
                  first == CHOOSE i \in 1..n :
                              /\ products[i].id = id
                              /\ \A j \in 1..(i - 1) : products[j].id # id
                  removed == products[first]
              IN  /\ last'.res = "ok"
                  /\ Len(products') = n - 1
                  /\ first < n => products'[first] = products[n]
                  /\ \A j \in 1..(n - 1) : j # first => products'[j] = products[j]
                  /\ \A q \in Stored :
                        Occurrences(products', q) =
                            Occurrences(products, q) - (IF q = removed THEN 1 ELSE 0)]_allvars

\* C23 witness: a Delete succeeded and left at least three products, one of
\* them with the deleted id (the first of two with that id was removed) and
\* not at the end of the collection.
DeletedFirstOfTwo ==
    /\ backend = "mem" /\ last.op = "Delete" /\ last.res = "ok"
    /\ Len(products) >= 3
    /\ \E i \in 1..(Len(products) - 1) : products[i].id = last.id

\* C27: in memory, List returns normally (a page or an empty page, never a
\* panic) for every page >= 1 and every pageSize in 1..100.
ListNeverPanics ==
    (backend = "mem" /\ last.op = "List") => last.res = "ok"

\* C26: in memory, the pages List(1,ps), List(2,ps), ... read to the first
\* empty page, with Deletes of other products between the reads, hold every
\* product that stayed stored from the first read to the last (no product is
\* created meanwhile, so these are the products stored at the end) and hold
\* no product twice.
PagingSeesEveryProduct ==
    (backend = "mem" /\ enum.phase = "done") =>
        /\ \A p \in Stored : \E i \in 1..Len(enum.acc) : enum.acc[i] = p
        /\ \A i, j \in 1..Len(enum.acc) : i # j => enum.acc[i].id # enum.acc[j].id

\* C24: an in-memory UpdateProduct request whose Update succeeded is answered
\* 200 with a product carrying the name, description and price of that
\* request, whatever requests other goroutines serve meanwhile.
UpdateRespondsOwnFields ==
    \A p \in Procs :
        (serving[p].handler = "UpdateProduct" /\ serving[p].step = "responded"
            /\ serving[p].first.res = "ok") =>
            /\ serving[p].status = StatusOK
            /\ Len(serving[p].body) = 1
            /\ serving[p].body[1].name = serving[p].req.name
            /\ serving[p].body[1].description = serving[p].req.description
            /\ serving[p].body[1].price = serving[p].req.price

\* C25: the products and the totalCount of an in-memory ListProducts response
\* describe one state of the dataset: a page that is not empty ends within
\* totalCount, (page-1)*pageSize + len(products) <= totalCount, whatever
\* requests other goroutines serve meanwhile.
ListPageWithinTotalCount ==
    \A p \in Procs :
        (serving[p].handler = "ListProducts" /\ serving[p].step = "responded"
            /\ serving[p].body # <<>>) =>
            (serving[p].page - 1) * serving[p].pageSize + Len(serving[p].body)
                <= serving[p].totalCount

====
